---- MODULE Spec2Model ----
(***************************************************************************)
(* Model of stream-llm: one Session (src/src/Session.ts) with its private  *)
(* EventBuffer (src/src/EventBuffer.ts) on top of one Connection adapter   *)
(* (src/src/adapters/FetchConnection.ts and the Node adapters).            *)
(*                                                                         *)
(* Text is a sequence of one-character strings, so that framing, line      *)
(* splitting and sanitising are computed the way the code computes them.   *)
(***************************************************************************)
EXTENDS Integers, Sequences, FiniteSets, TLC

\* ------------------------------------------------------------------------
\* Bounds of the exploration
\* ------------------------------------------------------------------------
MaxCalls == 3
MaxTicks == 1
MaxPushes == 2
MaxRegs == 3
MaxLen == 3

\* ------------------------------------------------------------------------
\* Program constants
\* ------------------------------------------------------------------------
DefaultRetry == 2000
DefaultKeepAlive == 10000
PaddingLen == 2049
PreambleLen == 2056
Null == 0 - 1

\* ------------------------------------------------------------------------
\* Text helpers
\* ------------------------------------------------------------------------
NL == <<"\n">>
MESSAGE == <<"m", "e", "s", "s", "a", "g", "e">>
IdField == <<"i", "d", ":", " ">>
EventField == <<"e", "v", "e", "n", "t", ":", " ">>
DataField == <<"d", "a", "t", "a", ":", " ">>
RetryField == <<"r", "e", "t", "r", "y", ":", " ">>
CommentField == <<":", " ">>

Digit(d) == CASE d = 0 -> "0" [] d = 1 -> "1" [] d = 2 -> "2" [] d = 3 -> "3"
              [] d = 4 -> "4" [] d = 5 -> "5" [] d = 6 -> "6" [] d = 7 -> "7"
              [] d = 8 -> "8" [] d = 9 -> "9"

RECURSIVE NumToText(_)
NumToText(n) == IF n < 10 THEN <<Digit(n)>>
                ELSE NumToText(n \div 10) \o <<Digit(n % 10)>>

Repeat(c, n) == [i \in 1..n |-> c]

RECURSIVE Concat(_)
Concat(texts) == IF texts = <<>> THEN <<>>
                 ELSE Head(texts) \o Concat(Tail(texts))

IsPrefix(p, s) == Len(p) <= Len(s) /\ SubSeq(s, 1, Len(p)) = p

IsSuffix(p, s) ==
    Len(p) <= Len(s) /\ SubSeq(s, Len(s) - Len(p) + 1, Len(s)) = p

Contains(s, p) ==
    \E i \in 0..(Len(s) - Len(p)) : SubSeq(s, i + 1, i + Len(p)) = p

\* String.prototype.split("\n")
RECURSIVE SplitNL(_, _)
SplitNL(s, cur) ==
    IF s = <<>> THEN <<cur>>
    ELSE IF Head(s) = "\n" THEN <<cur>> \o SplitNL(Tail(s), <<>>)
    ELSE SplitNL(Tail(s), Append(cur, Head(s)))

Split(s) == SplitNL(s, <<>>)

\* ------------------------------------------------------------------------
\* utils/sanitize (default sanitizer) and utils/serialize (default serializer)
\* ------------------------------------------------------------------------
RECURSIVE ReplaceCRLF(_)
ReplaceCRLF(s) ==
    IF s = <<>> THEN <<>>
    ELSE IF Len(s) >= 2 /\ s[1] = "\r" /\ s[2] = "\n"
         THEN <<"\n">> \o ReplaceCRLF(SubSeq(s, 3, Len(s)))
    ELSE <<Head(s)>> \o ReplaceCRLF(Tail(s))

ReplaceChar(s, from, to) == [i \in 1..Len(s) |-> IF s[i] = from THEN to ELSE s[i]]

\* sanitize without its second replace, of a lone carriage return
sanitize_KeepsCR(data) == ReplaceChar(ReplaceCRLF(data), "\n", " ")

sanitize(data) ==
    ReplaceChar(ReplaceChar(ReplaceCRLF(data), "\r", "\n"), "\n", " ")

\* A payload is a string, a JSON-serialisable value (carried with its JSON
\* text) or a value JSON.stringify throws on (a cyclic object, a BigInt).
StringPayload(t) == [type |-> "string", text |-> t]
JsonPayload(t) == [type |-> "json", text |-> t]
CyclicPayload == [type |-> "cyclic", text |-> <<>>]

SerializeThrows(data) == data.type = "cyclic"

serialize(data) == data.text

\* ------------------------------------------------------------------------
\* EventBuffer (the accumulated text is the value these operators transform)
\* ------------------------------------------------------------------------
RECURSIVE DataLines(_)
DataLines(lines) ==
    IF lines = <<>> THEN <<>>
    ELSE DataField \o Head(lines) \o NL \o DataLines(Tail(lines))

\* EventBuffer.push with the `if (eventId)` test inverted
EventFrame_IdTestInverted(data, eventName, eventId) ==
    (IF eventId = <<>> THEN IdField \o eventId \o NL ELSE <<>>)
    \o (IF eventName # <<>> /\ eventName # MESSAGE
        THEN EventField \o eventName \o NL ELSE <<>>)
    \o DataLines(Split(sanitize(serialize(data))))
    \o NL

\* The text one EventBuffer.push call appends
EventFrame(data, eventName, eventId) ==
    (IF eventId # <<>> THEN IdField \o eventId \o NL ELSE <<>>)
    \o (IF eventName # <<>> /\ eventName # MESSAGE
        THEN EventField \o eventName \o NL ELSE <<>>)
    \o DataLines(Split(sanitize(serialize(data))))
    \o NL

EventBufferPush(buf, data, eventName, eventId) ==
    buf \o EventFrame(data, eventName, eventId)

EventBufferComment(buf, text) == buf \o CommentField \o text \o NL \o NL

EventBufferRetry(buf, time) == buf \o RetryField \o NumToText(time) \o NL \o NL

\* ------------------------------------------------------------------------
\* Inputs
\* ------------------------------------------------------------------------
Absent == [present |-> FALSE, value |-> <<>>]
Given(t) == [present |-> TRUE, value |-> t]

Kinds == {"fetch", "http1", "http2"}

Options(keepAlive, retry, pad, header) ==
    [keepAlive |-> keepAlive, retry |-> retry,
     padding |-> pad, evs_preamble |-> pad,
     trustClientEventId |-> TRUE, lastEventIdHeader |-> header,
     queryLastEventId |-> Absent, queryEvsLastEventId |-> Absent]

WithKind(k, o) == [kind |-> k] @@ o

Configs ==
    {WithKind("fetch", Options(DefaultKeepAlive, DefaultRetry, FALSE, Absent)),
     WithKind("http1", Options(DefaultKeepAlive, Null, FALSE, Absent)),
     WithKind("http2", Options(Null, Null, FALSE, Given(<<"s", "0">>)))}

\* The arguments of a push call
Call(data, eventName, eventId) ==
    [data |-> data, eventName |-> eventName, eventId |-> eventId]

\* Session.push calls with an explicit eventId
SessionCalls ==
    {Call(StringPayload(<<"b", "\n", "c">>), <<"u", "p">>, <<"e", "1">>),
     Call(CyclicPayload, MESSAGE, <<"e", "2">>)}

\* Session.push calls that leave eventId to its default, crypto.randomUUID()
DefaultIdCalls == {Call(StringPayload(<<"a">>), MESSAGE, <<>>)}

\* EventBuffer.push calls made by a batch callback (eventId defaults to "")
BufferCalls ==
    {Call(StringPayload(<<"a">>), MESSAGE, <<"e", "1">>),
     Call(StringPayload(<<"b", "\n", "c">>), <<"u", "p">>, <<>>),
     Call(CyclicPayload, MESSAGE, <<"e", "2">>)}

Uuid(n) == <<"u">> \o NumToText(n)

\* ------------------------------------------------------------------------
\* State
\* ------------------------------------------------------------------------
VARIABLES
    cfg,             \* the request and the SessionOptions given to the constructor
    isConnected,     \* Session.isConnected
    lastId,          \* Session.lastId
    buffer,          \* the text held by the Session's private EventBuffer
    keepAliveTimer,  \* Session.keepAliveTimer: "unset", "live" or "cleared"
    abortListener,   \* onDisconnected is attached to connection.request.signal
    immediate,       \* setImmediate(this.initialize) has not run yet
    aborted,         \* connection.request.signal.aborted
    closeListeners,  \* Node adapters: streams whose once("close") listener is attached
    closed,          \* Node adapters: streams that have emitted "close"
    headSent,        \* number of Connection.sendHead calls
    chunks,          \* the arguments of the Connection.sendChunk calls, in order
    cleanups,        \* number of Connection.cleanup calls
    emitted,         \* the Session's "connected" / "disconnected" / "push" notifications
    pushLog,         \* the arguments of the "push" notifications
    batchPc,         \* Session.batch: "idle" or "running" (callback not yet settled)
    batchQueued,     \* frames the running batch callback has queued, in call order
    batchAt,         \* Len(chunks) and Len(emitted) when the latest batch was called
    last,            \* the latest push or batch call to settle, and whether it completed
    nCalls,          \* number of calls so far that queued a frame or started a batch
    nTicks,          \* number of heartbeat ticks so far
    uuids            \* number of crypto.randomUUID() results drawn so far


\* A Channel and the Sessions an application may register with it
VARIABLES
    chSessions,      \* Channel.sessions, a Set: its members in insertion order
    chEmitted,       \* how often the Channel has emitted each notification
    chLast,          \* the latest Channel or Session call of the application
    sHookThrows,     \* per Session: its serializer option is a hook that throws
    sConnected,      \* per Session: isConnected
    sImmediate,      \* per Session: setImmediate(initialize) has not run yet
    sAbortListener,  \* per Session: onDisconnected is attached to the signal
    sListeners,      \* per Session: once("disconnected") listeners of the Channel
    sLastId,         \* per Session: lastId
    sChunks,         \* per Session: the sendChunk calls on its connection
    issued,          \* the event ids of the broadcast and push calls, in call order
    nPushes,         \* number of broadcast and push calls so far
    nRegs,           \* number of register / deregister calls that changed the registry
    chUuids          \* number of crypto.randomUUID() results drawn so far

chanVars == <<chSessions, chEmitted, chLast, sHookThrows, sConnected,
              sImmediate, sAbortListener, sListeners, sLastId, sChunks,
              issued, nPushes, nRegs, chUuids>>

\* Session.stream and Session.iterate calls, and the sources they consume
VARIABLES
    streamSt,        \* the stream() call: its promise, its Readable, its counters
    iterSt           \* the iterate() call: its promise and its counters

feedVars == <<streamSt, iterSt>>

\* One push under study: its arguments and hooks, and an EventBuffer of its own
VARIABLES
    fnIn,            \* the hooks, the payload, the event name and the event id
    fnOut            \* the EventBuffer: calls made, whether the last threw, its text

fnVars == <<fnIn, fnOut>>

\* How the Session came to be: the constructor call and the factory around it
VARIABLES
    ctor,            \* the constructor call: not made, returned or threw; its arguments
    factory,         \* createSession / createResponse: promise, callback, outcome
    conn             \* the adapter under study: its writer, how its last call completed

ctorVars == <<ctor, factory, conn>>

extraVars == <<feedVars, fnVars, ctorVars>>

sessionVars == <<cfg, isConnected, lastId, buffer, keepAliveTimer,
                 abortListener, immediate, aborted, closeListeners, closed,
                 headSent, chunks, cleanups, emitted, pushLog, batchPc,
                 batchQueued, batchAt, last, nCalls, nTicks, uuids>>

vars == <<sessionVars, chanVars, extraVars>>

connVars == <<headSent, chunks, cleanups>>
transportVars == <<aborted, closeListeners, closed>>
batchVars == <<batchPc, batchQueued, batchAt>>

Done(op, ok) == [op |-> op, ok |-> ok]

\* The resumption value with the query parameter consulted before the header
ResumptionSeed_QueryFirst(c) ==
    IF c.trustClientEventId
    THEN IF c.queryLastEventId.present THEN c.queryLastEventId.value
         ELSE IF c.lastEventIdHeader.present THEN c.lastEventIdHeader.value
         ELSE IF c.queryEvsLastEventId.present THEN c.queryEvsLastEventId.value
         ELSE <<>>
    ELSE <<>>

\* Session constructor: the resumption value read from the request
ResumptionSeed(c) ==
    IF c.trustClientEventId
    THEN IF c.lastEventIdHeader.present THEN c.lastEventIdHeader.value
         ELSE IF c.queryLastEventId.present THEN c.queryLastEventId.value
         ELSE IF c.queryEvsLastEventId.present THEN c.queryEvsLastEventId.value
         ELSE <<>>
    ELSE <<>>

Sessions == {"A", "B"}

NoFilter == [present |-> FALSE, selects |-> {}]
FilterOf(S) == [present |-> TRUE, selects |-> S]

ChDone(op, session, ok, filter) ==
    [op |-> op, session |-> session, ok |-> ok, filter |-> filter]

\* A notification of the Channel and the Session it is about
ChEv(ev, session) == [ev |-> ev, session |-> session]

ChannelEvents ==
    {ChEv(e, s) : e \in {"session-registered", "session-deregistered",
                         "session-disconnected"}, s \in Sessions}
    \cup {ChEv("broadcast", "")}

\* TypedEmitter.emit, n times, with no listener of the application attached
Emit(counts, e, n) == [counts EXCEPT ![e] = @ + n]

\* No Channel is in use
NoChannel ==
    /\ chSessions = <<>>
    /\ chEmitted = [e \in ChannelEvents |-> 0]
    /\ chLast = ChDone("none", "", TRUE, NoFilter)
    /\ sHookThrows = [s \in Sessions |-> FALSE]
    /\ sConnected = [s \in Sessions |-> FALSE]
    /\ sImmediate = [s \in Sessions |-> FALSE]
    /\ sAbortListener = [s \in Sessions |-> FALSE]
    /\ sListeners = [s \in Sessions |-> 0]
    /\ sLastId = [s \in Sessions |-> <<>>]
    /\ sChunks = [s \in Sessions |-> <<>>]
    /\ issued = <<>>
    /\ nPushes = 0
    /\ nRegs = 0
    /\ chUuids = 0

\* No stream() or iterate() call has been made
NoFeed ==
    /\ streamSt = [pc |-> "idle", src |-> "none", index |-> 0, seen |-> 0,
                   prefix |-> <<>>]
    /\ iterSt = [pc |-> "idle", index |-> 0, pulled |-> 0, prefix |-> <<>>]

\* No push is singled out
NoFn ==
    /\ fnIn = [serializer |-> "default", sanitizer |-> "default",
               data |-> StringPayload(<<>>), eventName |-> MESSAGE,
               eventId |-> <<>>]
    /\ fnOut = [calls |-> 0, threw |-> FALSE, buffer |-> <<>>]

\* No adapter is studied on its own
NoConn == [writer |-> "none", call |-> "none", outcome |-> "none"]

\* The Session was made by `new Session`, with no factory around it
NoFactory ==
    /\ ctor = [pc |-> "constructed", res |-> "none", opts |-> TRUE]
    /\ factory = [via |-> "new", call |-> "returned", promise |-> "none",
                  callback |-> "none", cbCalls |-> 0, uncaught |-> 0,
                  logged |-> 0]
    /\ conn = NoConn

\* The state right after `new Session(req, res, options)` has returned
Init ==
    /\ NoChannel
    /\ NoFeed
    /\ NoFn
    /\ NoFactory
    /\ cfg \in Configs
    /\ isConnected = FALSE
    /\ lastId = ResumptionSeed(cfg)
    /\ buffer = <<>>
    /\ keepAliveTimer = "unset"
    /\ abortListener = TRUE
    /\ immediate = TRUE
    /\ aborted = FALSE
    /\ closeListeners = IF cfg.kind = "fetch" THEN {} ELSE {"req", "res"}
    /\ closed = {}
    /\ headSent = 0
    /\ chunks = <<>>
    /\ cleanups = 0
    /\ emitted = <<>>
    /\ pushLog = <<>>
    /\ batchPc = "idle"
    /\ batchQueued = <<>>
    /\ batchAt = [chunks |-> 0, emitted |-> 0]
    /\ last = Done("construct", TRUE)
    /\ nCalls = 0
    /\ nTicks = 0
    /\ uuids = 0

\* ------------------------------------------------------------------------
\* Session: private handlers
\* ------------------------------------------------------------------------

\* Session.flush without its clear
Flush_NoClear(contents) ==
    /\ chunks' = Append(chunks, contents)
    /\ buffer' = contents

\* Session.flush of the text `contents` (read, clear, sendChunk)
Flush(contents) ==
    /\ chunks' = Append(chunks, contents)
    /\ buffer' = <<>>

\* What Session.initialize queues on the buffer before its flush
InitialFrames(buf) ==
    LET b1 == IF cfg.padding
              THEN EventBufferComment(buf, Repeat(" ", PaddingLen)) ELSE buf
        b2 == IF cfg.evs_preamble
              THEN EventBufferComment(b1, Repeat(" ", PreambleLen)) ELSE b1
    IN  IF cfg.retry # Null THEN EventBufferRetry(b2, cfg.retry) ELSE b2

\* Session.initialize, run by setImmediate after the constructor returned
InitializeBody ==
    /\ immediate
    /\ immediate' = FALSE
    /\ headSent' = headSent + 1
    /\ Flush(InitialFrames(buffer))
    /\ keepAliveTimer' = IF cfg.keepAlive # Null THEN "live" ELSE keepAliveTimer
    /\ isConnected' = TRUE
    /\ emitted' = Append(emitted, "connected")
    /\ last' = last
    /\ UNCHANGED <<cfg, lastId, abortListener, transportVars, cleanups,
                   pushLog, batchVars, nCalls, nTicks, uuids>>

Initialize ==
    /\ UNCHANGED <<chanVars, extraVars>>
    /\ InitializeBody

\* Connection.cleanup: the Node adapters remove their close listeners, the
\* fetch adapter closes its writer
Cleanup ==
    /\ cleanups' = cleanups + 1
    /\ closeListeners' = {}

\* onDisconnected without its clearInterval
OnDisconnected_NoClearInterval ==
    /\ abortListener' = FALSE
    /\ Cleanup
    /\ keepAliveTimer' = keepAliveTimer
    /\ isConnected' = FALSE
    /\ emitted' = Append(emitted, "disconnected")

\* Session.onDisconnected, the abort listener
OnDisconnected ==
    /\ abortListener' = FALSE
    /\ Cleanup
    /\ keepAliveTimer' = IF keepAliveTimer # "unset" THEN "cleared"
                         ELSE keepAliveTimer
    /\ isConnected' = FALSE
    /\ emitted' = Append(emitted, "disconnected")

\* AbortController.abort(): the abort event is dispatched on the first call
\* only; `attached` are the close listeners left if no handler removes them
Abort(attached) ==
    IF ~aborted /\ abortListener
    THEN aborted' = TRUE /\ OnDisconnected
    ELSE /\ aborted' = TRUE
         /\ closeListeners' = attached
         /\ UNCHANGED <<abortListener, cleanups, keepAliveTimer, isConnected,
                        emitted>>

\* Node adapters: the request or the response stream emits "close"; a
\* listener registered with once() is detached, then onClose runs
StreamClose(s) ==
    /\ UNCHANGED <<chanVars, extraVars>>
    /\ cfg.kind # "fetch"
    /\ s \notin closed
    /\ closed' = closed \cup {s}
    /\ IF s \in closeListeners
       THEN Abort(closeListeners \ {s})
       ELSE UNCHANGED <<aborted, closeListeners, abortListener, cleanups,
                        keepAliveTimer, isConnected, emitted>>
    /\ last' = last
    /\ UNCHANGED <<cfg, lastId, buffer, immediate, headSent, chunks, pushLog,
                   batchVars, nCalls, nTicks, uuids>>

\* Fetch adapter: the Request's signal is aborted by its owner
SignalAbort ==
    /\ UNCHANGED <<chanVars, extraVars>>
    /\ cfg.kind = "fetch"
    /\ ~aborted
    /\ Abort(closeListeners)
    /\ last' = last
    /\ UNCHANGED <<cfg, lastId, buffer, immediate, closed, headSent, chunks,
                   pushLog, batchVars, nCalls, nTicks, uuids>>

\* Session.keepAlive, run by the interval timer
KeepAlive ==
    /\ UNCHANGED <<chanVars, extraVars>>
    /\ keepAliveTimer = "live"
    /\ nTicks < MaxTicks
    /\ nTicks' = nTicks + 1
    /\ Flush(EventBufferComment(buffer, <<>>))
    /\ last' = last
    /\ UNCHANGED <<cfg, isConnected, lastId, keepAliveTimer, abortListener,
                   immediate, transportVars, headSent, cleanups, emitted,
                   pushLog, batchVars, nCalls, uuids>>

\* ------------------------------------------------------------------------
\* Session: public operations
\* ------------------------------------------------------------------------

\* push without its isConnected check
PushAllowed_Unchecked == TRUE

\* The guard of Session.push
PushAllowed == isConnected

\* Session.push(data, eventName, eventId); eventId = Uuid(uuids + 1) stands
\* for the default argument crypto.randomUUID()
Push(data, eventName, eventId) ==
    /\ UNCHANGED <<chanVars, extraVars>>
    /\ nCalls < MaxCalls
    /\ IF PushAllowed /\ ~SerializeThrows(data)
       THEN /\ Flush(EventBufferPush(buffer, data, eventName, eventId))
            /\ lastId' = eventId
            /\ emitted' = Append(emitted, "push")
            /\ pushLog' = Append(pushLog, [data |-> data, eventName |-> eventName,
                                           eventId |-> eventId])
            /\ uuids' = IF eventId = Uuid(uuids + 1) THEN uuids + 1 ELSE uuids
            /\ nCalls' = nCalls + 1
            /\ last' = Done("push", TRUE)
       ELSE /\ last' = Done("push", FALSE)
            /\ UNCHANGED <<buffer, chunks, lastId, emitted, pushLog, uuids,
                           nCalls>>
    /\ UNCHANGED <<cfg, isConnected, keepAliveTimer, abortListener, immediate,
                   transportVars, headSent, cleanups, batchVars, nTicks>>

\* Session.batch(callback): the callback is called with the buffer
BatchCall ==
    /\ UNCHANGED <<chanVars, extraVars>>
    /\ batchPc = "idle"
    /\ nCalls < MaxCalls
    /\ nCalls' = nCalls + 1
    /\ batchPc' = "running"
    /\ batchQueued' = <<>>
    /\ batchAt' = [chunks |-> Len(chunks), emitted |-> Len(emitted)]
    /\ last' = last
    /\ UNCHANGED <<cfg, isConnected, lastId, buffer, keepAliveTimer,
                   abortListener, immediate, transportVars, connVars, emitted,
                   pushLog, nTicks, uuids>>

\* The batch callback calls buffer.push; a throwing hook leaves the buffer
\* as it was and the callback fails with that error
BatchBufferPush(data, eventName, eventId) ==
    /\ UNCHANGED <<chanVars, extraVars>>
    /\ batchPc = "running"
    /\ nCalls < MaxCalls
    /\ IF SerializeThrows(data)
       THEN /\ batchPc' = "idle"
            /\ last' = Done("batch", FALSE)
            /\ UNCHANGED <<buffer, batchQueued, nCalls>>
       ELSE /\ buffer' = EventBufferPush(buffer, data, eventName, eventId)
            /\ batchQueued' = Append(batchQueued,
                                     EventFrame(data, eventName, eventId))
            /\ batchPc' = "running"
            /\ nCalls' = nCalls + 1
            /\ last' = last
    /\ UNCHANGED <<cfg, isConnected, lastId, keepAliveTimer, abortListener,
                   immediate, transportVars, connVars, emitted, pushLog,
                   batchAt, nTicks, uuids>>

\* The batch callback throws, or the promise it returned rejects: the
\* `await` in batch rethrows and the flush is not reached
BatchCallbackThrows ==
    /\ UNCHANGED <<chanVars, extraVars>>
    /\ batchPc = "running"
    /\ batchPc' = "idle"
    /\ last' = Done("batch", FALSE)
    /\ UNCHANGED <<cfg, isConnected, lastId, buffer, keepAliveTimer,
                   abortListener, immediate, transportVars, connVars, emitted,
                   pushLog, batchQueued, batchAt, nCalls, nTicks, uuids>>

\* The batch callback has completed: batch flushes
BatchFlush ==
    /\ UNCHANGED <<chanVars, extraVars>>
    /\ batchPc = "running"
    /\ batchPc' = "idle"
    /\ Flush(buffer)
    /\ last' = Done("batch", TRUE)
    /\ UNCHANGED <<cfg, isConnected, lastId, keepAliveTimer, abortListener,
                   immediate, transportVars, headSent, cleanups, emitted,
                   pushLog, batchQueued, batchAt, nCalls, nTicks, uuids>>

Next ==
    \/ Initialize
    \/ \E s \in {"req", "res"} : StreamClose(s)
    \/ SignalAbort
    \/ KeepAlive
    \/ \E c \in SessionCalls : Push(c.data, c.eventName, c.eventId)
    \/ \E c \in DefaultIdCalls : Push(c.data, c.eventName, Uuid(uuids + 1))
    \/ BatchCall
    \/ \E c \in BufferCalls : BatchBufferPush(c.data, c.eventName, c.eventId)
    \/ BatchCallbackThrows
    \/ BatchFlush

Spec == Init /\ [][Next]_vars

\* ------------------------------------------------------------------------
\* Channel
\* ------------------------------------------------------------------------
\* The options of the Sessions that are registered with the Channel
ChannelSessionOptions == WithKind("fetch", Options(Null, Null, FALSE, Absent))

\* BroadcastOptions.filter values: none, or a predicate over the Sessions
Filters == {NoFilter, FilterOf({"B"})}

\* The payloads and the event name the application uses
PushData == StringPayload(<<"a">>)
BroadcastData == StringPayload(<<"b">>)
BroadcastName == <<"u", "p">>

\* The eventId an application gives its n-th event
EventIdOf(n) == <<"e">> \o NumToText(n)

\* Set.has and Set.delete on Channel.sessions
Has(reg, s) == \E i \in 1..Len(reg) : reg[i] = s

Remove(reg, s) == SelectSeq(reg, LAMBDA x : x # s)

\* The state after `new Channel()` and after the constructors of the
\* Sessions have returned
ChanInit ==
    /\ cfg = ChannelSessionOptions
    /\ isConnected = FALSE
    /\ lastId = <<>>
    /\ buffer = <<>>
    /\ keepAliveTimer = "unset"
    /\ abortListener = FALSE
    /\ immediate = FALSE
    /\ aborted = FALSE
    /\ closeListeners = {}
    /\ closed = {}
    /\ headSent = 0
    /\ chunks = <<>>
    /\ cleanups = 0
    /\ emitted = <<>>
    /\ pushLog = <<>>
    /\ batchPc = "idle"
    /\ batchQueued = <<>>
    /\ batchAt = [chunks |-> 0, emitted |-> 0]
    /\ last = Done("none", TRUE)
    /\ nCalls = 0
    /\ nTicks = 0
    /\ uuids = 0
    /\ NoFeed
    /\ NoFn
    /\ NoFactory
    /\ chSessions = <<>>
    /\ chEmitted = [e \in ChannelEvents |-> 0]
    /\ chLast = ChDone("none", "", TRUE, NoFilter)
    /\ sHookThrows \in {[s \in Sessions |-> FALSE],
                        [s \in Sessions |-> s = "A"]}
    /\ sConnected = [s \in Sessions |-> FALSE]
    /\ sImmediate = [s \in Sessions |-> TRUE]
    /\ sAbortListener = [s \in Sessions |-> TRUE]
    /\ sListeners = [s \in Sessions |-> 0]
    /\ sLastId = [s \in Sessions |-> ResumptionSeed(ChannelSessionOptions)]
    /\ sChunks = [s \in Sessions |-> <<>>]
    /\ issued = <<>>
    /\ nPushes = 0
    /\ nRegs = 0
    /\ chUuids = 0

\* Session.flush of one Session: connection.sendChunk(buffer.read())
SessionFlush_Prepends(written, contents) == <<contents>> \o written

SessionFlush(written, contents) == Append(written, contents)

\* Session.initialize of Session s
SInitialize(s) ==
    /\ sImmediate[s]
    /\ sImmediate' = [sImmediate EXCEPT ![s] = FALSE]
    /\ sChunks' = [sChunks EXCEPT ![s] = SessionFlush(@, InitialFrames(<<>>))]
    /\ sConnected' = [sConnected EXCEPT ![s] = TRUE]
    /\ UNCHANGED <<chSessions, chEmitted, chLast, sHookThrows, sAbortListener,
                   sListeners, sLastId, issued, nPushes, nRegs, chUuids>>
    /\ UNCHANGED <<sessionVars, extraVars>>

\* Channel.deregister: how many "session-deregistered" it emits
DeregisterNotifications_Always(reg, s) == 1

DeregisterNotifications(reg, s) == IF Has(reg, s) THEN 1 ELSE 0

\* The registry after the listener that Channel.register put on the Session
\* has run
AfterDisconnect_NoDeregister(reg, s) == reg

AfterDisconnect(reg, s) == Remove(reg, s)

\* What n listeners of Channel.register emit, one after the other, when
\* Session s emits "disconnected"
RECURSIVE ListenerNotifications(_, _, _, _)
ListenerNotifications(counts, n, reg, s) ==
    IF n = 0 THEN counts
    ELSE ListenerNotifications(
             Emit(Emit(counts, ChEv("session-disconnected", s), 1),
                  ChEv("session-deregistered", s),
                  DeregisterNotifications(reg, s)),
             n - 1, AfterDisconnect(reg, s), s)

\* The request signal of Session s aborts: Session.onDisconnected, and
\* within its emit the listeners that Channel.register attached
SAbort(s) ==
    /\ sAbortListener[s]
    /\ sAbortListener' = [sAbortListener EXCEPT ![s] = FALSE]
    /\ sConnected' = [sConnected EXCEPT ![s] = FALSE]
    /\ chEmitted' = ListenerNotifications(chEmitted, sListeners[s], chSessions, s)
    /\ chSessions' = IF sListeners[s] > 0 THEN AfterDisconnect(chSessions, s)
                     ELSE chSessions
    /\ sListeners' = [sListeners EXCEPT ![s] = 0]
    /\ UNCHANGED <<chLast, sHookThrows, sImmediate, sLastId, sChunks, issued,
                   nPushes, nRegs, chUuids>>
    /\ UNCHANGED <<sessionVars, extraVars>>

\* Channel.register: the test of session.isConnected
RegisterAllowed_Unchecked(s) == TRUE

RegisterAllowed(s) == sConnected[s]

\* Channel.register: the test of this.sessions.has(session)
AlreadyRegistered_Unchecked(reg, s) == FALSE

AlreadyRegistered(reg, s) == Has(reg, s)

\* Channel.register(s)
Register(s) ==
    /\ IF AlreadyRegistered(chSessions, s)
       THEN /\ chLast' = ChDone("register", s, TRUE, NoFilter)
            /\ UNCHANGED <<chSessions, chEmitted, sListeners, nRegs>>
       ELSE IF ~RegisterAllowed(s)
       THEN /\ chLast' = ChDone("register", s, FALSE, NoFilter)
            /\ UNCHANGED <<chSessions, chEmitted, sListeners, nRegs>>
       ELSE /\ nRegs < MaxRegs
            /\ sListeners' = [sListeners EXCEPT ![s] = @ + 1]
            /\ chSessions' = Append(chSessions, s)
            /\ chEmitted' = Emit(chEmitted, ChEv("session-registered", s), 1)
            /\ chLast' = ChDone("register", s, TRUE, NoFilter)
            /\ nRegs' = nRegs + 1
    /\ UNCHANGED <<sHookThrows, sConnected, sImmediate, sAbortListener,
                   sLastId, sChunks, issued, nPushes, chUuids>>
    /\ UNCHANGED <<sessionVars, extraVars>>

\* Channel.deregister(s)
Deregister(s) ==
    /\ Has(chSessions, s) => nRegs < MaxRegs
    /\ chEmitted' = Emit(chEmitted, ChEv("session-deregistered", s),
                         DeregisterNotifications(chSessions, s))
    /\ chSessions' = Remove(chSessions, s)
    /\ nRegs' = IF Has(chSessions, s) THEN nRegs + 1 ELSE nRegs
    /\ chLast' = ChDone("deregister", s, TRUE, NoFilter)
    /\ UNCHANGED <<sHookThrows, sConnected, sImmediate, sAbortListener,
                   sListeners, sLastId, sChunks, issued, nPushes, chUuids>>
    /\ UNCHANGED <<sessionVars, extraVars>>

\* Whether session.push(data, ...) on Session s throws
SPushThrows(s, data) ==
    ~sConnected[s] \/ sHookThrows[s] \/ SerializeThrows(data)

\* Session.push on Session s, called by the application
SPush(s, data, eventName) ==
    LET eventId == Uuid(chUuids + 1)
    IN  /\ IF SPushThrows(s, data)
           THEN /\ chLast' = ChDone("push", s, FALSE, NoFilter)
                /\ UNCHANGED <<sChunks, sLastId, issued, nPushes, chUuids>>
           ELSE /\ nPushes < MaxPushes
                /\ sChunks' = [sChunks EXCEPT ![s] =
                                 SessionFlush(@, EventFrame(data, eventName, eventId))]
                /\ sLastId' = [sLastId EXCEPT ![s] = eventId]
                /\ issued' = Append(issued, eventId)
                /\ nPushes' = nPushes + 1
                /\ chUuids' = chUuids + 1
                /\ chLast' = ChDone("push", s, TRUE, NoFilter)
        /\ UNCHANGED <<chSessions, chEmitted, sHookThrows, sConnected,
                       sImmediate, sAbortListener, sListeners, nRegs>>
        /\ UNCHANGED <<sessionVars, extraVars>>

\* The Sessions a broadcast iterates over, in iteration order
Recipients(reg, filter) ==
    IF filter.present THEN SelectSeq(reg, LAMBDA s : s \in filter.selects)
    ELSE reg

\* The position in rs of the first Session whose push throws, Len(rs) + 1
\* if there is none
FirstThrow(rs, data) ==
    LET bad == {i \in 1..Len(rs) : SPushThrows(rs[i], data)}
    IN  IF bad = {} THEN Len(rs) + 1
        ELSE CHOOSE i \in bad : \A j \in bad : i <= j

\* Channel.broadcast(data, eventName, {eventId, filter})
Broadcast(data, eventName, optEventId, filter) ==
    LET eventId == IF optEventId.present THEN optEventId.value
                   ELSE Uuid(chUuids + 1)
        rs == Recipients(chSessions, filter)
        k == FirstThrow(rs, data)
        got == {rs[i] : i \in 1..(k - 1)}
        ok == k > Len(rs)
    IN  /\ nPushes < MaxPushes
        /\ sChunks' = [s \in Sessions |->
                         IF s \in got
                         THEN SessionFlush(sChunks[s],
                                           EventFrame(data, eventName, eventId))
                         ELSE sChunks[s]]
        /\ sLastId' = [s \in Sessions |->
                         IF s \in got THEN eventId ELSE sLastId[s]]
        /\ chEmitted' = IF ok THEN Emit(chEmitted, ChEv("broadcast", ""), 1)
                        ELSE chEmitted
        /\ chLast' = ChDone("broadcast", "", ok, filter)
        /\ issued' = Append(issued, eventId)
        /\ nPushes' = nPushes + 1
        /\ chUuids' = IF optEventId.present THEN chUuids ELSE chUuids + 1
        /\ UNCHANGED <<chSessions, sHookThrows, sConnected, sImmediate,
                       sAbortListener, sListeners, nRegs>>
        /\ UNCHANGED <<sessionVars, extraVars>>

ChanNext ==
    \/ \E s \in Sessions : SInitialize(s)
    \/ \E s \in Sessions : SAbort(s)
    \/ \E s \in Sessions : Register(s)
    \/ \E s \in Sessions : Deregister(s)
    \/ \E s \in Sessions : SPush(s, PushData, MESSAGE)
    \/ \E id \in {Absent, Given(EventIdOf(nPushes + 1))}, f \in Filters :
         Broadcast(BroadcastData, BroadcastName, id, f)

ChanSpec == ChanInit /\ [][ChanNext]_vars

\* ------------------------------------------------------------------------
\* Session.stream and Session.iterate
\* ------------------------------------------------------------------------
\* The options of the Session that stream() and iterate() are called on
FeedSessionOptions == WithKind("fetch", Options(Null, Null, FALSE, Absent))

\* options.eventIdPrefix: absent (""), or a prefix
Prefixes == {<<>>, <<"p">>}

\* The event names given to stream() and iterate()
StreamEventName == <<"s">>
IterateEventName == <<"n">>

\* The n-th value a source yields (1, 2, 3, ...), 0-based
ItemOf(n) == JsonPayload(NumToText(n + 1))

\* `${eventIdPrefix}-${index}` with an index that is never advanced
PrefixedId_IndexZero(prefix, index) == prefix \o <<"-">> \o NumToText(0)

\* `${eventIdPrefix}-${index}`
PrefixedId(prefix, index) == prefix \o <<"-">> \o NumToText(index)

\* The state after the constructor of the Session has returned
FeedInit ==
    /\ NoChannel
    /\ NoFeed
    /\ NoFn
    /\ NoFactory
    /\ cfg = FeedSessionOptions
    /\ isConnected = FALSE
    /\ lastId = ResumptionSeed(FeedSessionOptions)
    /\ buffer = <<>>
    /\ keepAliveTimer = "unset"
    /\ abortListener = TRUE
    /\ immediate = TRUE
    /\ aborted = FALSE
    /\ closeListeners = {}
    /\ closed = {}
    /\ headSent = 0
    /\ chunks = <<>>
    /\ cleanups = 0
    /\ emitted = <<>>
    /\ pushLog = <<>>
    /\ batchPc = "idle"
    /\ batchQueued = <<>>
    /\ batchAt = [chunks |-> 0, emitted |-> 0]
    /\ last = Done("construct", TRUE)
    /\ nCalls = 0
    /\ nTicks = 0
    /\ uuids = 0

\* What a Session.push call that completes does: buffer.push, flush,
\* lastId, the "push" notification
SessionPush(data, eventName, eventId) ==
    /\ Flush(EventBufferPush(buffer, data, eventName, eventId))
    /\ lastId' = eventId
    /\ emitted' = Append(emitted, "push")
    /\ pushLog' = Append(pushLog, [data |-> data, eventName |-> eventName,
                                   eventId |-> eventId])

\* The id stream() and iterate() give the item with the given index
FeedEventId(prefix, index) ==
    IF prefix # <<>> THEN PrefixedId(prefix, index) ELSE Uuid(uuids + 1)

\* resolve / reject of a promise: only the first call settles it
Settle_LastWins(pc, outcome) == outcome

Settle(pc, outcome) == IF pc = "pending" THEN outcome ELSE pc

\* Session.stream(stream, {eventName, eventIdPrefix, transform}): the
\* executor attaches its "data", "end" and "error" listeners
StreamCall(prefix) ==
    /\ streamSt.pc = "idle"
    /\ streamSt' = [pc |-> "pending", src |-> "flowing", index |-> 0,
                    seen |-> 0, prefix |-> prefix]
    /\ UNCHANGED <<sessionVars, chanVars, iterSt, fnVars, ctorVars>>

\* The Readable emits "data": the listener of stream() transforms the
\* chunk and pushes it; whatever is thrown goes to reject
StreamData(transformThrows) ==
    LET data == ItemOf(streamSt.seen)
        eventId == FeedEventId(streamSt.prefix, streamSt.index)
    IN  /\ streamSt.src = "flowing"
        /\ streamSt.seen < MaxCalls
        /\ IF ~transformThrows /\ PushAllowed /\ ~SerializeThrows(data)
           THEN /\ SessionPush(data, StreamEventName, eventId)
                /\ uuids' = IF streamSt.prefix = <<>> THEN uuids + 1 ELSE uuids
                /\ streamSt' = [streamSt EXCEPT !.index = @ + 1,
                                                !.seen = @ + 1]
           ELSE /\ streamSt' = [streamSt EXCEPT
                                  !.pc = Settle(@, "rejected"),
                                  !.seen = @ + 1]
                /\ UNCHANGED <<buffer, chunks, lastId, emitted, pushLog, uuids>>
        /\ UNCHANGED <<cfg, isConnected, keepAliveTimer, abortListener,
                       immediate, transportVars, headSent, cleanups,
                       batchVars, last, nCalls, nTicks>>
        /\ UNCHANGED <<chanVars, iterSt, fnVars, ctorVars>>

\* The Readable emits "end"
StreamEnd ==
    /\ streamSt.src = "flowing"
    /\ streamSt' = [streamSt EXCEPT !.src = "ended",
                                    !.pc = Settle(@, "resolved")]
    /\ UNCHANGED <<sessionVars, chanVars, iterSt, fnVars, ctorVars>>

\* The Readable emits "error"
StreamError ==
    /\ streamSt.src = "flowing"
    /\ streamSt' = [streamSt EXCEPT !.src = "errored",
                                    !.pc = Settle(@, "rejected")]
    /\ UNCHANGED <<sessionVars, chanVars, iterSt, fnVars, ctorVars>>

\* Session.iterate(iterable, {eventName, eventIdPrefix}) with an async
\* iterable: the call returns at the first await of the for-await loop
IterateCall(prefix) ==
    /\ iterSt.pc = "idle"
    /\ iterSt' = [pc |-> "pending", index |-> 0, pulled |-> 0,
                  prefix |-> prefix]
    /\ UNCHANGED <<sessionVars, chanVars, streamSt, fnVars, ctorVars>>

\* The async iterable yields its next value: one turn of the loop
IterateNext ==
    LET data == ItemOf(iterSt.pulled)
        eventId == FeedEventId(iterSt.prefix, iterSt.index)
    IN  /\ iterSt.pc = "pending"
        /\ iterSt.pulled < MaxCalls
        /\ IF PushAllowed /\ ~SerializeThrows(data)
           THEN /\ SessionPush(data, IterateEventName, eventId)
                /\ uuids' = IF iterSt.prefix = <<>> THEN uuids + 1 ELSE uuids
                /\ iterSt' = [iterSt EXCEPT !.index = @ + 1, !.pulled = @ + 1]
           ELSE /\ iterSt' = [iterSt EXCEPT !.pc = "rejected",
                                            !.pulled = @ + 1]
                /\ UNCHANGED <<buffer, chunks, lastId, emitted, pushLog, uuids>>
        /\ UNCHANGED <<cfg, isConnected, keepAliveTimer, abortListener,
                       immediate, transportVars, headSent, cleanups,
                       batchVars, last, nCalls, nTicks>>
        /\ UNCHANGED <<chanVars, streamSt, fnVars, ctorVars>>

\* The async iterable throws instead of yielding
IterateSourceThrows ==
    /\ iterSt.pc = "pending"
    /\ iterSt' = [iterSt EXCEPT !.pc = "rejected"]
    /\ UNCHANGED <<sessionVars, chanVars, streamSt, fnVars, ctorVars>>

\* The async iterable is exhausted
IterateDone ==
    /\ iterSt.pc = "pending"
    /\ iterSt' = [iterSt EXCEPT !.pc = "resolved"]
    /\ UNCHANGED <<sessionVars, chanVars, streamSt, fnVars, ctorVars>>

\* The frames of the items from..(from + n - 1) of a synchronous iterable
RECURSIVE SyncFrames(_, _, _, _)
SyncFrames(prefix, from, n, drawn) ==
    IF n = 0 THEN <<>>
    ELSE <<EventFrame(ItemOf(from), IterateEventName,
                      IF prefix # <<>> THEN PrefixedId(prefix, from)
                      ELSE Uuid(drawn + 1))>>
         \o SyncFrames(prefix, from + 1, n - 1, drawn + 1)

\* Session.iterate with a synchronous iterable of n values: the whole loop
\* runs inside the call
IterateSync(prefix, n) ==
    LET frames == SyncFrames(prefix, 0, n, uuids)
        lastIdOf == IF prefix # <<>> THEN PrefixedId(prefix, n - 1)
                    ELSE Uuid(uuids + n)
    IN  /\ iterSt.pc = "idle"
        /\ IF n = 0
           THEN /\ iterSt' = [pc |-> "resolved", index |-> 0, pulled |-> 0,
                              prefix |-> prefix]
                /\ UNCHANGED <<buffer, chunks, lastId, emitted, pushLog, uuids>>
           ELSE IF PushAllowed
           THEN /\ chunks' = chunks \o <<buffer \o frames[1]>>
                                    \o SubSeq(frames, 2, n)
                /\ buffer' = <<>>
                /\ lastId' = lastIdOf
                /\ emitted' = emitted \o [i \in 1..n |-> "push"]
                /\ pushLog' = pushLog \o
                     [i \in 1..n |->
                        [data |-> ItemOf(i - 1), eventName |-> IterateEventName,
                         eventId |-> IF prefix # <<>>
                                     THEN PrefixedId(prefix, i - 1)
                                     ELSE Uuid(uuids + i)]]
                /\ uuids' = IF prefix = <<>> THEN uuids + n ELSE uuids
                /\ iterSt' = [pc |-> "resolved", index |-> n, pulled |-> n,
                              prefix |-> prefix]
           ELSE /\ iterSt' = [pc |-> "rejected", index |-> 0, pulled |-> 1,
                              prefix |-> prefix]
                /\ UNCHANGED <<buffer, chunks, lastId, emitted, pushLog, uuids>>
        /\ UNCHANGED <<cfg, isConnected, keepAliveTimer, abortListener,
                       immediate, transportVars, headSent, cleanups,
                       batchVars, last, nCalls, nTicks>>
        /\ UNCHANGED <<chanVars, streamSt, fnVars, ctorVars>>

FeedNext ==
    \/ Initialize
    \/ SignalAbort
    \/ \E prefix \in Prefixes : StreamCall(prefix)
    \/ \E transformThrows \in BOOLEAN : StreamData(transformThrows)
    \/ StreamEnd
    \/ StreamError
    \/ \E prefix \in Prefixes : IterateCall(prefix)
    \/ IterateNext
    \/ IterateSourceThrows
    \/ IterateDone
    \/ \E prefix \in Prefixes, n \in 0..MaxCalls : IterateSync(prefix, n)

FeedSpec == FeedInit /\ [][FeedNext]_vars

\* ------------------------------------------------------------------------
\* One push, with the serializer and sanitizer options
\* ------------------------------------------------------------------------
\* options.serializer and options.sanitizer: absent (the defaults), a hook
\* that throws, or, for the sanitizer, a hook that returns its argument
Hooks ==
    {[serializer |-> "default", sanitizer |-> "default"],
     [serializer |-> "default", sanitizer |-> "identity"],
     [serializer |-> "default", sanitizer |-> "throws"],
     [serializer |-> "throws", sanitizer |-> "default"]}

\* The texts of the given length over a, CR and LF
RECURSIVE TextsOfLen(_)
TextsOfLen(n) ==
    IF n = 0 THEN {<<>>}
    ELSE {<<c>> \o t : c \in {"a", "\r", "\n"}, t \in TextsOfLen(n - 1)}

Payloads ==
    {StringPayload(t) : t \in UNION {TextsOfLen(n) : n \in 0..MaxLen}}
    \cup {JsonPayload(<<"{", "\"", "x", "\"", ":", "1", "}">>), CyclicPayload}

EventNames == {MESSAGE, <<>>, <<"u", "p", "d", "a", "t", "e">>}

EventIds == {<<>>, <<"e", "1">>}

\* this.serialize(data), this.sanitize(serialized) throw
HookThrows(h, data) ==
    \/ h.serializer = "throws"
    \/ h.serializer = "default" /\ SerializeThrows(data)
    \/ h.sanitizer = "throws"

\* this.sanitize(this.serialize(data))
Sanitized(h, data) ==
    IF h.sanitizer = "identity" THEN serialize(data)
    ELSE sanitize(serialize(data))

\* EventBuffer.push writing the event line before the id line
FrameWith_EventLineFirst(h, data, eventName, eventId) ==
    (IF eventName # <<>> /\ eventName # MESSAGE
     THEN EventField \o eventName \o NL ELSE <<>>)
    \o (IF eventId # <<>> THEN IdField \o eventId \o NL ELSE <<>>)
    \o DataLines(Split(Sanitized(h, data)))
    \o NL

\* The text EventBuffer.push appends when its hooks return
FrameWith(h, data, eventName, eventId) ==
    (IF eventId # <<>> THEN IdField \o eventId \o NL ELSE <<>>)
    \o (IF eventName # <<>> /\ eventName # MESSAGE
        THEN EventField \o eventName \o NL ELSE <<>>)
    \o DataLines(Split(Sanitized(h, data)))
    \o NL

\* EventBuffer.push appending the id line before it calls the hooks
EventBufferPushWith_IdLineFirst(h, buf, data, eventName, eventId) ==
    IF HookThrows(h, data)
    THEN [threw |-> TRUE,
          buffer |-> buf \o (IF eventId # <<>> THEN IdField \o eventId \o NL
                             ELSE <<>>)]
    ELSE [threw |-> FALSE,
          buffer |-> buf \o FrameWith(h, data, eventName, eventId)]

\* EventBuffer.push: the hooks are called first, then the lines are appended
EventBufferPushWith(h, buf, data, eventName, eventId) ==
    IF HookThrows(h, data) THEN [threw |-> TRUE, buffer |-> buf]
    ELSE [threw |-> FALSE,
          buffer |-> buf \o FrameWith(h, data, eventName, eventId)]

\* The state after `new EventBuffer(hooks)` and `new Session(req, hooks)`
FrameInit ==
    /\ NoChannel
    /\ NoFeed
    /\ NoFactory
    /\ fnIn \in {h @@ [data |-> d, eventName |-> n, eventId |-> i] :
                   h \in Hooks, d \in Payloads, n \in EventNames,
                   i \in EventIds}
    /\ fnOut = [calls |-> 0, threw |-> FALSE, buffer |-> <<>>]
    /\ cfg = FeedSessionOptions
    /\ isConnected = FALSE
    /\ lastId = ResumptionSeed(FeedSessionOptions)
    /\ buffer = <<>>
    /\ keepAliveTimer = "unset"
    /\ abortListener = TRUE
    /\ immediate = TRUE
    /\ aborted = FALSE
    /\ closeListeners = {}
    /\ closed = {}
    /\ headSent = 0
    /\ chunks = <<>>
    /\ cleanups = 0
    /\ emitted = <<>>
    /\ pushLog = <<>>
    /\ batchPc = "idle"
    /\ batchQueued = <<>>
    /\ batchAt = [chunks |-> 0, emitted |-> 0]
    /\ last = Done("construct", TRUE)
    /\ nCalls = 0
    /\ nTicks = 0
    /\ uuids = 0

\* buffer.push(data, eventName, eventId) on the EventBuffer
BufferPushCall ==
    LET r == EventBufferPushWith(fnIn, fnOut.buffer, fnIn.data,
                                 fnIn.eventName, fnIn.eventId)
    IN  /\ fnOut.calls < MaxCalls
        /\ fnOut' = [calls |-> fnOut.calls + 1, threw |-> r.threw,
                     buffer |-> r.buffer]
        /\ UNCHANGED <<sessionVars, chanVars, feedVars, fnIn, ctorVars>>

\* session.push(data, eventName, eventId) on the Session
HookedPush ==
    LET r == EventBufferPushWith(fnIn, buffer, fnIn.data, fnIn.eventName,
                                 fnIn.eventId)
    IN  /\ nCalls < MaxCalls
        /\ nCalls' = nCalls + 1
        /\ IF PushAllowed /\ ~r.threw
           THEN /\ Flush(r.buffer)
                /\ lastId' = fnIn.eventId
                /\ emitted' = Append(emitted, "push")
                /\ pushLog' = Append(pushLog,
                                     [data |-> fnIn.data,
                                      eventName |-> fnIn.eventName,
                                      eventId |-> fnIn.eventId])
                /\ last' = Done("push", TRUE)
           ELSE /\ buffer' = IF PushAllowed THEN r.buffer ELSE buffer
                /\ last' = Done("push", FALSE)
                /\ UNCHANGED <<chunks, lastId, emitted, pushLog>>
        /\ UNCHANGED <<cfg, isConnected, keepAliveTimer, abortListener,
                       immediate, transportVars, headSent, cleanups,
                       batchVars, nTicks, uuids>>
        /\ UNCHANGED <<chanVars, feedVars, fnVars, ctorVars>>

FrameNext ==
    \/ Initialize
    \/ BufferPushCall
    \/ HookedPush

FrameSpec == FrameInit /\ [][FrameNext]_vars

\* ------------------------------------------------------------------------
\* The constructor of Session, createSession and createResponse
\* ------------------------------------------------------------------------
\* The shapes of the first argument: a fetch Request, a Node IncomingMessage,
\* a Node Http2ServerRequest, anything else
RequestShapes == {"fetch", "http1", "http2", "other"}

\* The shapes of the second argument: absent, a fetch Response, a Node
\* ServerResponse, a Node Http2ServerResponse, a SessionOptions object
ResponseShapes == {"none", "fetch", "http1", "http2", "options"}

\* The requests and the SessionOptions an application constructs a Session
\* from: the last-event-id header, the two query parameters, and
\* trustClientEventId
SeedConfigs ==
    {[WithKind(k, Options(Null, Null, FALSE, h)) EXCEPT
         !.trustClientEventId = t,
         !.queryLastEventId = q1,
         !.queryEvsLastEventId = q2] :
       k \in RequestShapes,
       h \in {Absent, Given(<<>>), Given(<<"h">>)},
       q1 \in {Absent, Given(<<"q">>)},
       q2 \in {Absent, Given(<<"v">>)},
       t \in BOOLEAN}

\* The options the constructor falls back on when none reach it
DefaultsOf(c) ==
    [c EXCEPT !.keepAlive = DefaultKeepAlive, !.retry = DefaultRetry,
              !.trustClientEventId = TRUE]

\* The constructor throws SseError: the instanceof tests on req and res
CtorThrows(kind, res, opts) ==
    CASE kind = "fetch" -> res \notin {"none", "fetch"} /\ opts
      [] kind = "http1" -> res # "http1"
      [] kind = "http2" -> res # "http2"
      [] OTHER -> TRUE

\* givenOptions: the third argument if given; for a fetch Request with a
\* second argument that is no Response, that second argument
GivenOptions(c, res, opts) ==
    IF opts \/ res = "options" THEN c ELSE DefaultsOf(c)

\* Before any Session is constructed: a request and options are at hand
CtorInit ==
    /\ NoChannel
    /\ NoFeed
    /\ NoFn
    /\ ctor = [pc |-> "none", res |-> "none", opts |-> FALSE]
    /\ factory = [via |-> "none", call |-> "none", promise |-> "none",
                  callback |-> "none", cbCalls |-> 0, uncaught |-> 0,
                  logged |-> 0]
    /\ conn = NoConn
    /\ cfg \in SeedConfigs
    /\ isConnected = FALSE
    /\ lastId = <<>>
    /\ buffer = <<>>
    /\ keepAliveTimer = "unset"
    /\ abortListener = FALSE
    /\ immediate = FALSE
    /\ aborted = FALSE
    /\ closeListeners = {}
    /\ closed = {}
    /\ headSent = 0
    /\ chunks = <<>>
    /\ cleanups = 0
    /\ emitted = <<>>
    /\ pushLog = <<>>
    /\ batchPc = "idle"
    /\ batchQueued = <<>>
    /\ batchAt = [chunks |-> 0, emitted |-> 0]
    /\ last = Done("none", TRUE)
    /\ nCalls = 0
    /\ nTicks = 0
    /\ uuids = 0

\* new Session(req, res, options): it throws, or it builds the adapter,
\* seeds lastId, attaches the abort listener and schedules initialize
Construct(res, opts) ==
    /\ IF CtorThrows(cfg.kind, res, opts)
       THEN /\ ctor' = [pc |-> "threw", res |-> res, opts |-> opts]
            /\ UNCHANGED <<cfg, lastId, abortListener, immediate,
                           closeListeners>>
       ELSE /\ ctor' = [pc |-> "constructed", res |-> res, opts |-> opts]
            /\ cfg' = GivenOptions(cfg, res, opts)
            /\ lastId' = ResumptionSeed(GivenOptions(cfg, res, opts))
            /\ abortListener' = TRUE
            /\ immediate' = TRUE
            /\ closeListeners' = IF cfg.kind = "fetch" THEN {}
                                 ELSE {"req", "res"} \ closed
    /\ UNCHANGED <<isConnected, buffer, keepAliveTimer, aborted, closed,
                   connVars, emitted, pushLog, batchVars, last, nCalls,
                   nTicks, uuids>>
    /\ UNCHANGED <<chanVars, feedVars, fnVars, conn>>

\* The application calls `new Session(...)` itself
NewSession(res, opts) ==
    /\ factory.via = "none"
    /\ Construct(res, opts)
    /\ factory' = [factory EXCEPT
                     !.via = "new",
                     !.call = IF CtorThrows(cfg.kind, res, opts)
                              THEN "threw" ELSE "returned"]

\* createSession(...args): the constructor, then the wait for "connected"
CreateSession(res, opts) ==
    /\ factory.via = "none"
    /\ Construct(res, opts)
    /\ factory' = [factory EXCEPT
                     !.via = "createSession",
                     !.call = "returned",
                     !.promise = IF CtorThrows(cfg.kind, res, opts)
                                 THEN "rejected" ELSE "pending"]

\* createResponse with the Session constructed before the callback is tested
CreateResponse_ConstructsFirst(res, opts, callback) ==
    /\ factory.via = "none"
    /\ cfg.kind = "fetch"
    /\ Construct(res, opts)
    /\ factory' = [factory EXCEPT
                     !.via = "createResponse",
                     !.callback = callback,
                     !.call = IF callback = "none"
                                 \/ CtorThrows(cfg.kind, res, opts)
                              THEN "threw" ELSE "returned"]

\* createResponse(request, [response], [options], [callback])
CreateResponse(res, opts, callback) ==
    /\ factory.via = "none"
    /\ cfg.kind = "fetch"
    /\ IF callback = "none"
       THEN /\ factory' = [factory EXCEPT !.via = "createResponse",
                                          !.call = "threw"]
            /\ UNCHANGED <<sessionVars, chanVars, feedVars, fnVars, ctor,
                           conn>>
       ELSE /\ Construct(res, opts)
            /\ factory' = [factory EXCEPT
                             !.via = "createResponse",
                             !.callback = callback,
                             !.call = IF CtorThrows(cfg.kind, res, opts)
                                      THEN "threw" ELSE "returned"]

\* What the "connected" listeners of the factories do inside the emit of
\* initialize: createSession's resolves its promise; createResponse's calls
\* the callback, logs a rejection, and lets a throw escape
Connected(f) ==
    IF f.via = "createSession"
    THEN [f EXCEPT !.promise = "resolved"]
    ELSE IF f.via = "createResponse"
    THEN [f EXCEPT !.cbCalls = @ + 1,
                   !.uncaught = IF f.callback = "throws" THEN @ + 1 ELSE @,
                   !.logged = IF f.callback = "rejects" THEN @ + 1 ELSE @]
    ELSE f

\* Session.initialize with the listeners of the factories
CInitialize ==
    /\ InitializeBody
    /\ factory' = Connected(factory)
    /\ UNCHANGED <<chanVars, feedVars, fnVars, ctor, conn>>

CtorNext ==
    \/ \E res \in ResponseShapes, opts \in BOOLEAN : NewSession(res, opts)
    \/ \E res \in ResponseShapes, opts \in BOOLEAN : CreateSession(res, opts)
    \/ \E res \in {"none", "fetch"}, opts \in BOOLEAN,
          callback \in {"none", "returns", "throws", "rejects"} :
         CreateResponse(res, opts, callback)
    \/ CInitialize
    \/ \E s \in {"req", "res"} : StreamClose(s)
    \/ SignalAbort

CtorSpec == CtorInit /\ [][CtorNext]_vars

\* ------------------------------------------------------------------------
\* The adapters on their own: FetchConnection, NodeHttp1Connection,
\* NodeHttp2CompatConnection
\* ------------------------------------------------------------------------
\* A chunk handed to sendChunk
SomeChunk == <<"x">>

\* An adapter right after its constructor: the Node adapters have their two
\* close listeners, the fetch adapter has the writer of its TransformStream
ConnInit ==
    /\ NoChannel
    /\ NoFeed
    /\ NoFn
    /\ ctor = [pc |-> "constructed", res |-> "none", opts |-> TRUE]
    /\ factory = [via |-> "new", call |-> "returned", promise |-> "none",
                  callback |-> "none", cbCalls |-> 0, uncaught |-> 0,
                  logged |-> 0]
    /\ cfg \in {WithKind(k, Options(Null, Null, FALSE, Absent)) : k \in Kinds}
    /\ conn = [writer |-> IF cfg.kind = "fetch" THEN "open" ELSE "none",
               call |-> "none", outcome |-> "none"]
    /\ isConnected = FALSE
    /\ lastId = <<>>
    /\ buffer = <<>>
    /\ keepAliveTimer = "unset"
    /\ abortListener = FALSE
    /\ immediate = FALSE
    /\ aborted = FALSE
    /\ closeListeners = IF cfg.kind = "fetch" THEN {} ELSE {"req", "res"}
    /\ closed = {}
    /\ headSent = 0
    /\ chunks = <<>>
    /\ cleanups = 0
    /\ emitted = <<>>
    /\ pushLog = <<>>
    /\ batchPc = "idle"
    /\ batchQueued = <<>>
    /\ batchAt = [chunks |-> 0, emitted |-> 0]
    /\ last = Done("none", TRUE)
    /\ nCalls = 0
    /\ nTicks = 0
    /\ uuids = 0

\* What the adapter's calls leave alone
ConnFrame ==
    /\ last' = last
    /\ UNCHANGED <<cfg, isConnected, lastId, buffer, keepAliveTimer,
                   abortListener, immediate, aborted, closed, emitted,
                   pushLog, batchVars, nCalls, nTicks, uuids>>
    /\ UNCHANGED <<chanVars, feedVars, fnVars, ctor, factory>>

\* WritableStreamDefaultWriter.write / close: the promise they return is
\* rejected once the stream is closed or closing
WriterCall(writer) == IF writer = "open" THEN "returned" ELSE "rejected"

\* sendHead: writeHead on the Node response, nothing for the fetch adapter
ConnSendHead ==
    /\ headSent = 0
    /\ headSent' = headSent + 1
    /\ conn' = [conn EXCEPT !.call = "sendHead", !.outcome = "returned"]
    /\ UNCHANGED <<chunks, cleanups, closeListeners>>
    /\ ConnFrame

\* sendChunk: res.write(chunk), or writer.write(encoded) with its promise
\* dropped
ConnSendChunk ==
    /\ Len(chunks) < MaxPushes
    /\ chunks' = Append(chunks, SomeChunk)
    /\ conn' = [conn EXCEPT
                  !.call = "sendChunk",
                  !.outcome = IF cfg.kind = "fetch"
                              THEN WriterCall(conn.writer) ELSE "returned"]
    /\ UNCHANGED <<headSent, cleanups, closeListeners>>
    /\ ConnFrame

\* cleanup: removeListener on req and res, or writer.close() with its
\* promise dropped
ConnCleanup ==
    /\ cleanups < MaxCalls
    /\ Cleanup
    /\ conn' = [conn EXCEPT
                  !.call = "cleanup",
                  !.outcome = IF cfg.kind = "fetch"
                              THEN WriterCall(conn.writer) ELSE "returned",
                  !.writer = IF cfg.kind = "fetch" THEN "closed" ELSE @]
    /\ UNCHANGED <<headSent, chunks>>
    /\ ConnFrame

ConnNext ==
    \/ ConnSendHead
    \/ ConnSendChunk
    \/ ConnCleanup
    \/ \E s \in {"req", "res"} : StreamClose(s)
    \/ SignalAbort

ConnSpec == ConnInit /\ [][ConnNext]_vars

\* ------------------------------------------------------------------------
\* EventBuffer.iterate on an EventBuffer of its own
\* ------------------------------------------------------------------------
\* The values a source yields: a number, or an object JSON.stringify
\* throws on
Items == {JsonPayload(NumToText(1)), CyclicPayload}

\* The sources: every sequence of at most MaxLen values
RECURSIVE SourcesOfLen(_)
SourcesOfLen(n) ==
    IF n = 0 THEN {<<>>}
    ELSE {<<d>> \o src : d \in Items, src \in SourcesOfLen(n - 1)}

Sources == UNION {SourcesOfLen(n) : n \in 0..MaxLen}

\* The state after `new EventBuffer(hooks)`; the event name given to
\* iterate() is fnIn.eventName
BufInit ==
    /\ NoChannel
    /\ NoFactory
    /\ streamSt = [pc |-> "idle", src |-> "none", index |-> 0, seen |-> 0,
                   prefix |-> <<>>]
    /\ iterSt = [pc |-> "idle", index |-> 0, pulled |-> 0, prefix |-> <<>>,
                 src |-> <<>>]
    /\ fnIn \in {h @@ [data |-> StringPayload(<<"a">>), eventName |-> n,
                       eventId |-> <<"e", "1">>] :
                   h \in Hooks, n \in {MESSAGE, IterateEventName}}
    /\ fnOut = [calls |-> 0, threw |-> FALSE, buffer |-> <<>>]
    /\ cfg = FeedSessionOptions
    /\ isConnected = FALSE
    /\ lastId = <<>>
    /\ buffer = <<>>
    /\ keepAliveTimer = "unset"
    /\ abortListener = FALSE
    /\ immediate = FALSE
    /\ aborted = FALSE
    /\ closeListeners = {}
    /\ closed = {}
    /\ headSent = 0
    /\ chunks = <<>>
    /\ cleanups = 0
    /\ emitted = <<>>
    /\ pushLog = <<>>
    /\ batchPc = "idle"
    /\ batchQueued = <<>>
    /\ batchAt = [chunks |-> 0, emitted |-> 0]
    /\ last = Done("none", TRUE)
    /\ nCalls = 0
    /\ nTicks = 0
    /\ uuids = 0

\* What EventBuffer.iterate leaves alone: the Session and its connection
BufFrame ==
    /\ last' = last
    /\ UNCHANGED <<cfg, isConnected, lastId, buffer, keepAliveTimer,
                   abortListener, immediate, transportVars, connVars,
                   emitted, pushLog, batchVars, nCalls, nTicks>>
    /\ UNCHANGED <<chanVars, streamSt, fnIn, ctorVars>>

\* The id of a turn of the loop with a 1-based index
BufEventId_OneBased(prefix, index, drawn) ==
    IF prefix # <<>> THEN PrefixedId(prefix, index + 1) ELSE Uuid(drawn + 1)

\* The id one turn of the loop gives its value: `${eventIdPrefix}-${index}`,
\* or crypto.randomUUID()
BufEventId(prefix, index, drawn) ==
    IF prefix # <<>> THEN PrefixedId(prefix, index) ELSE Uuid(drawn + 1)

\* The turns of the loop of EventBuffer.iterate over the values src, from the
\* given index on: this.push(value, eventName, eventId); index++
RECURSIVE BufLoop(_, _, _, _, _, _)
BufLoop(h, buf, prefix, src, index, drawn) ==
    IF src = <<>>
    THEN [threw |-> FALSE, buffer |-> buf, index |-> index, drawn |-> drawn]
    ELSE LET r == EventBufferPushWith(h, buf, Head(src), h.eventName,
                                      BufEventId(prefix, index, drawn))
         IN  IF r.threw
             THEN [threw |-> TRUE, buffer |-> r.buffer, index |-> index,
                   drawn |-> drawn]
             ELSE BufLoop(h, r.buffer, prefix, Tail(src), index + 1,
                          IF prefix = <<>> THEN drawn + 1 ELSE drawn)

\* buffer.iterate(iterable, {eventName, eventIdPrefix}) with an async
\* iterable: the call returns at the first await of the for-await loop
BufIterateCall(prefix, src) ==
    /\ iterSt.pc = "idle"
    /\ iterSt' = [pc |-> "pending", index |-> 0, pulled |-> 0,
                  prefix |-> prefix, src |-> src]
    /\ UNCHANGED <<fnOut, uuids>>
    /\ BufFrame

\* The async iterable yields its next value: one turn of the loop
BufIterateNext ==
    LET r == BufLoop(fnIn, fnOut.buffer, iterSt.prefix,
                     <<iterSt.src[iterSt.pulled + 1]>>, iterSt.index, uuids)
    IN  /\ iterSt.pc = "pending"
        /\ iterSt.pulled < Len(iterSt.src)
        /\ fnOut' = [calls |-> fnOut.calls, threw |-> r.threw,
                     buffer |-> r.buffer]
        /\ uuids' = r.drawn
        /\ iterSt' = [iterSt EXCEPT
                        !.pc = IF r.threw THEN "rejected" ELSE @,
                        !.index = r.index,
                        !.pulled = @ + 1]
        /\ BufFrame

\* The async iterable throws instead of yielding
BufIterateSourceThrows ==
    /\ iterSt.pc = "pending"
    /\ iterSt' = [iterSt EXCEPT !.pc = "rejected"]
    /\ UNCHANGED <<fnOut, uuids>>
    /\ BufFrame

\* The async iterable is exhausted
BufIterateDone ==
    /\ iterSt.pc = "pending"
    /\ iterSt.pulled = Len(iterSt.src)
    /\ iterSt' = [iterSt EXCEPT !.pc = "resolved"]
    /\ UNCHANGED <<fnOut, uuids>>
    /\ BufFrame

\* buffer.iterate with a synchronous iterable that yields the values src and
\* then ends, or throws: the whole loop runs inside the call
BufIterateSync(prefix, src, sourceThrows) ==
    LET r == BufLoop(fnIn, fnOut.buffer, prefix, src, 0, uuids)
    IN  /\ iterSt.pc = "idle"
        /\ fnOut' = [calls |-> fnOut.calls, threw |-> r.threw,
                     buffer |-> r.buffer]
        /\ uuids' = r.drawn
        /\ iterSt' = [pc |-> IF r.threw \/ sourceThrows THEN "rejected"
                             ELSE "resolved",
                      index |-> r.index,
                      pulled |-> IF r.threw THEN r.index + 1 ELSE r.index,
                      prefix |-> prefix, src |-> src]
        /\ BufFrame

\* buffer.push(...) by the application while the loop is suspended
BufOtherPush ==
    /\ BufferPushCall
    /\ iterSt.pc = "pending"

BufNext ==
    \/ \E prefix \in Prefixes, src \in Sources : BufIterateCall(prefix, src)
    \/ BufIterateNext
    \/ BufIterateSourceThrows
    \/ BufIterateDone
    \/ \E prefix \in Prefixes, src \in Sources, sourceThrows \in BOOLEAN :
         BufIterateSync(prefix, src, sourceThrows)
    \/ BufOtherPush

BufSpec == BufInit /\ [][BufNext]_vars

\* ------------------------------------------------------------------------
\* One push whose event id or event name holds line breaks
\* ------------------------------------------------------------------------
\* Event ids: none, a plain one, one that ends with a line break, one that
\* carries a data line and a blank line
BrokenIds ==
    {<<>>, <<"e", "1">>, <<"e", "\n">>,
     <<"1", "\n", "d", "a", "t", "a", ":", " ", "x", "\n">>}

\* Event names: the default, a plain one, one that carries an id line
BrokenNames ==
    {MESSAGE, <<"u">>, <<"u", "\n", "i", "d", ":", " ", "9">>}

\* The state after `new EventBuffer(hooks)` and `new Session(req, hooks)`,
\* with a push whose id and name are taken as the caller gives them
InjectInit ==
    /\ NoChannel
    /\ NoFeed
    /\ NoFactory
    /\ fnIn \in {h @@ [data |-> d, eventName |-> n, eventId |-> i] :
                   h \in {[serializer |-> "default", sanitizer |-> "default"],
                          [serializer |-> "default", sanitizer |-> "identity"]},
                   d \in {StringPayload(<<"a">>),
                          StringPayload(<<"a", "\n", "a">>)},
                   n \in BrokenNames, i \in BrokenIds}
    /\ fnOut = [calls |-> 0, threw |-> FALSE, buffer |-> <<>>]
    /\ cfg = FeedSessionOptions
    /\ isConnected = FALSE
    /\ lastId = ResumptionSeed(FeedSessionOptions)
    /\ buffer = <<>>
    /\ keepAliveTimer = "unset"
    /\ abortListener = TRUE
    /\ immediate = TRUE
    /\ aborted = FALSE
    /\ closeListeners = {}
    /\ closed = {}
    /\ headSent = 0
    /\ chunks = <<>>
    /\ cleanups = 0
    /\ emitted = <<>>
    /\ pushLog = <<>>
    /\ batchPc = "idle"
    /\ batchQueued = <<>>
    /\ batchAt = [chunks |-> 0, emitted |-> 0]
    /\ last = Done("construct", TRUE)
    /\ nCalls = 0
    /\ nTicks = 0
    /\ uuids = 0

InjectSpec == InjectInit /\ [][FrameNext]_vars

\* ------------------------------------------------------------------------
\* Observation helpers
\* ------------------------------------------------------------------------
Emitted(e) == \E i \in 1..Len(emitted) : emitted[i] = e

Count(e) == Cardinality({i \in 1..Len(emitted) : emitted[i] = e})

\* The step is a Session.push call that completed / that threw (`last` is
\* written only by push and batch) / either
PushOk == Len(pushLog') = Len(pushLog) + 1
PushThrew == last' = Done("push", FALSE) /\ last' # last
PushStep == PushOk \/ PushThrew

\* The step is the flush that ends a Session.batch call
BatchDone ==
    batchPc = "running" /\ batchPc' = "idle" /\ last' = Done("batch", TRUE)

\* The Session's first notification was `connected`
ConnectedFirst == Len(emitted) > 0 /\ emitted[1] = "connected"

\* The notification e had been emitted when the latest batch was called
CalledWhile(e) == \E i \in 1..batchAt.emitted : emitted[i] = e

\* The arguments of the latest completed push
Pushed == pushLog'[Len(pushLog')]

\* What a conforming event-stream consumer reads from a text: lines are
\* grouped into blocks ended by an empty line; a block with a data line is
\* an event, its id taken from its `id: ` line
RECURSIVE Blocks(_, _)
Blocks(lines, cur) ==
    IF lines = <<>> THEN <<>>
    ELSE IF Head(lines) = <<>>
         THEN (IF cur = <<>> THEN <<>> ELSE <<cur>>) \o Blocks(Tail(lines), <<>>)
    ELSE Blocks(Tail(lines), Append(cur, Head(lines)))

FieldValues(block, field) ==
    LET idx == {i \in 1..Len(block) : IsPrefix(field, block[i])}
    IN  [i \in idx |-> SubSeq(block[i], Len(field) + 1, Len(block[i]))]

LastValue(block, field, default) ==
    LET f == FieldValues(block, field)
    IN  IF DOMAIN f = {} THEN default
        ELSE f[CHOOSE i \in DOMAIN f : \A j \in DOMAIN f : j <= i]

IsEvent(block) == DOMAIN FieldValues(block, DataField) # {}

WireEvents(text) ==
    LET bs == SelectSeq(Blocks(Split(text), <<>>), IsEvent)
    IN  [i \in 1..Len(bs) |->
            [id |-> LastValue(bs[i], IdField, <<>>),
             event |-> LastValue(bs[i], EventField, MESSAGE)]]

\* The id of the last event with an id line in a text, if there is one
LastIdIn(text) ==
    LET starts == {i \in 1..(Len(text) - Len(IdField)) :
                      /\ (i = 1 \/ text[i - 1] = "\n")
                      /\ SubSeq(text, i, i + Len(IdField) - 1) = IdField}
        at == CHOOSE i \in starts : \A j \in starts : j <= i
        from == at + Len(IdField)
        eol == CHOOSE k \in from..Len(text) :
                  text[k] = "\n" /\ \A m \in from..(k - 1) : text[m] # "\n"
    IN  IF starts = {} THEN Absent ELSE Given(SubSeq(text, from, eol - 1))

RECURSIVE LastWrittenId(_, _)
LastWrittenId(written, seed) ==
    IF written = <<>> THEN seed
    ELSE LET l == LastIdIn(written[Len(written)])
         IN  IF l.present THEN l.value
             ELSE LastWrittenId(SubSeq(written, 1, Len(written) - 1), seed)

\* ------------------------------------------------------------------------
\* Claims
\* ------------------------------------------------------------------------

\* C1: disconnected is terminal: once the `disconnected` notification has
\* been emitted, isConnected is never true again.
C1_DisconnectedIsTerminal == Emitted("disconnected") => ~isConnected

\* C2: no transition skips connected: every `disconnected` notification is
\* preceded by a `connected` notification.
C2_NoDisconnectedBeforeConnected ==
    \A i \in 1..Len(emitted) :
        emitted[i] = "disconnected" =>
            \E j \in 1..(i - 1) : emitted[j] = "connected"

\* C3: a push on a Session whose isConnected is false throws and changes
\* nothing: no sendChunk, buffer and lastId unchanged, no `push` notification.
C3_PushWhenNotConnectedThrows ==
    [][(PushStep /\ ~isConnected) =>
          /\ ~last'.ok
          /\ UNCHANGED <<chunks, buffer, lastId, emitted, pushLog, isConnected,
                         headSent, cleanups, keepAliveTimer>>]_vars

C3_Witness ==
    /\ last = Done("push", FALSE)
    /\ ~isConnected
    /\ emitted = <<"connected", "disconnected">>

\* C4: every completed push made while no batch is running performs one
\* sendChunk whose argument is exactly the frame of the pushed event.
C4_PushWritesExactlyItsFrame ==
    [][(PushOk /\ batchPc = "idle") =>
          chunks' = Append(chunks, EventFrame(Pushed.data, Pushed.eventName,
                                              Pushed.eventId))]_vars

\* C5: each completed push adds one chunk after all earlier ones, that chunk
\* carries exactly one more event than was waiting in the buffer, the last
\* event of the chunk has the id used for the call, and lastId is that id;
\* so N pushes give N frames in call order and lastId is the last frame's id.
C5_PushFramesInCallOrder ==
    [][PushOk =>
          /\ Len(chunks') = Len(chunks) + 1
          /\ SubSeq(chunks', 1, Len(chunks)) = chunks
          /\ LET evs == WireEvents(chunks'[Len(chunks')])
             IN  /\ Len(evs) = Len(WireEvents(buffer)) + 1
                 /\ evs[Len(evs)].id = Pushed.eventId
                 /\ evs[Len(evs)].event = Pushed.eventName
          /\ lastId' = Pushed.eventId]_vars

C5_Witness ==
    /\ Len(pushLog) = 3
    /\ last = Done("push", TRUE)
    /\ pushLog[1].eventId # pushLog[2].eventId
    /\ pushLog[2].eventId # pushLog[3].eventId
    /\ pushLog[1].eventId # pushLog[3].eventId
    /\ Len(chunks) = 4

\* C6: an eventId assigned to an outbound frame becomes the new lastId:
\* whenever a connected Session writes a chunk holding an event frame with
\* an id line, lastId afterwards is the id of the last such frame in it.
C6_WrittenIdBecomesLastId ==
    [][(isConnected
        /\ Len(chunks') = Len(chunks) + 1
        /\ LastIdIn(chunks'[Len(chunks')]).present) =>
          lastId' = LastIdIn(chunks'[Len(chunks')]).value]_vars

\* C7: when a batch called on a connected Session completes, the frames its
\* callback queued have been delivered together, in call order, in one
\* sendChunk made since the call.
C7_BatchIsOneWrite ==
    [][(BatchDone /\ batchQueued # <<>> /\ CalledWhile("connected")
        /\ ~Emitted("disconnected")) =>
          \E i \in (batchAt.chunks + 1)..Len(chunks') :
              Contains(chunks'[i], Concat(batchQueued))]_vars

\* C8: after a connected Session has disconnected, a push or a batch called
\* from then on fails and nothing it does writes to the connection.
C8_CallsAfterDisconnectFail ==
    [][/\ (PushStep /\ ConnectedFirst /\ Emitted("disconnected")) =>
             (~last'.ok /\ chunks' = chunks)
       /\ (batchPc = "running" /\ batchPc' = "idle"
           /\ ConnectedFirst /\ CalledWhile("disconnected")) =>
             (~last'.ok /\ chunks' = chunks)]_vars

\* C9: the step on which the abort signal fires detaches the abort listener,
\* calls Connection.cleanup once, leaves no live heartbeat timer, sets
\* isConnected to false and emits `disconnected`; after the signal has fired
\* no further close signal emits `disconnected` or calls cleanup again.
C9_DisconnectHandledOnce ==
    [][/\ (~aborted /\ aborted') =>
             /\ emitted' = Append(emitted, "disconnected")
             /\ ~abortListener'
             /\ cleanups' = cleanups + 1
             /\ keepAliveTimer' # "live"
             /\ ~isConnected'
       /\ aborted =>
             /\ Count("disconnected")' = Count("disconnected")
             /\ cleanups' = cleanups
       /\ Count("disconnected")' <= 1]_vars

C9_Witness ==
    /\ closed = {"req", "res"}
    /\ Count("disconnected") = 1
    /\ Count("connected") = 1
    /\ cleanups = 1
    /\ keepAliveTimer = "cleared"

\* C10: after the `disconnected` notification there is no live heartbeat
\* timer and no heartbeat tick writes to the connection.
C10_NoHeartbeatAfterDisconnect ==
    [][Emitted("disconnected")' =>
          /\ keepAliveTimer' # "live"
          /\ nTicks' = nTicks]_vars

\* C11: Connection.sendHead is called at most once and no sendChunk call
\* is made before it.
C11_HeadBeforeAnyChunk == headSent <= 1 /\ (Len(chunks) > 0 => headSent = 1)


\* ------------------------------------------------------------------------
\* Observations of Channel steps
\* ------------------------------------------------------------------------
\* Session s emits "disconnected" in this step (onDisconnected removes its
\* abort listener and emits, in one run)
EmitsDisconnected(s) == sAbortListener[s] /\ ~sAbortListener'[s]

\* Channel.activeSessions and Channel.sessionCount
ActiveSessions(reg) == reg
SessionCount(reg) == Len(reg)

RegisterStep(s) ==
    /\ chLast'.op = "register" /\ chLast'.session = s
    /\ chLast' # chLast \/ nRegs' # nRegs

DeregisterStep(s) ==
    /\ chLast'.op = "deregister" /\ chLast'.session = s
    /\ chLast' # chLast \/ nRegs' # nRegs

BroadcastStep == chLast'.op = "broadcast" /\ nPushes' = nPushes + 1

\* C12: the registry holds no stale Session: every registered Session has
\* isConnected true, and no step in which a Session emits "disconnected"
\* leaves it registered (so it has emitted none since it was registered).
C12_NoStaleSessions ==
    [][\A s \in Sessions :
          Has(chSessions', s) => sConnected'[s] /\ ~EmitsDisconnected(s)]_vars

\* a Session that had emitted "disconnected" before initialize ran is
\* registered
C12_Witness ==
    \E s \in Sessions : Has(chSessions, s) /\ ~sAbortListener[s]

\* C13: when a registered Session disconnects it is removed from
\* activeSessions and sessionCount drops by one, with no deregister call;
\* the other registrations are unchanged.
C13_AutoCleanup ==
    [][\A s \in Sessions :
          Has(chSessions, s) /\ EmitsDisconnected(s) =>
             /\ ~Has(ActiveSessions(chSessions'), s)
             /\ SessionCount(chSessions') = SessionCount(chSessions) - 1
             /\ \A t \in Sessions \ {s} :
                   Has(chSessions', t) <=> Has(chSessions, t)
             /\ chLast' = chLast]_vars

C13_Witness ==
    \E s \in Sessions :
        /\ chEmitted[ChEv("session-disconnected", s)] = 1
        /\ chEmitted[ChEv("session-deregistered", s)] = 1
        /\ chLast.op = "register"
        /\ ~Has(chSessions, s)
        /\ SessionCount(chSessions) = 1

\* C14: register is an idempotent add that rejects a Session that is not
\* connected: for one that is not registered and not connected it throws,
\* leaves the registry alone and emits nothing; for a connected one it adds
\* the Session and emits `session-registered` once; for a registered one it
\* changes nothing and emits nothing.
C14_RegisterIdempotentAdd ==
    [][\A s \in Sessions :
          RegisterStep(s) =>
             IF Has(chSessions, s)
             THEN chLast'.ok /\ chSessions' = chSessions
                  /\ chEmitted' = chEmitted
             ELSE IF ~sConnected[s]
             THEN ~chLast'.ok /\ chSessions' = chSessions
                  /\ chEmitted' = chEmitted
             ELSE /\ chLast'.ok
                  /\ Has(chSessions', s)
                  /\ SessionCount(chSessions') = SessionCount(chSessions) + 1
                  /\ chEmitted' = [chEmitted EXCEPT
                                     ![ChEv("session-registered", s)] = @ + 1]]_vars

\* a register call was rejected while another Session stays registered
C14_Witness ==
    \E s \in Sessions :
        /\ chLast = ChDone("register", s, FALSE, NoFilter)
        /\ ~Has(chSessions, s)
        /\ SessionCount(chSessions) = 1
        /\ chEmitted[ChEv("session-registered", s)] = 0

\* C15: deregister is an idempotent remove: for a Session that is not
\* registered it changes nothing and emits nothing; for a registered one it
\* removes it and emits `session-deregistered` once.
C15_DeregisterIdempotentRemove ==
    [][\A s \in Sessions :
          DeregisterStep(s) =>
             IF Has(chSessions, s)
             THEN /\ ~Has(chSessions', s)
                  /\ SessionCount(chSessions') = SessionCount(chSessions) - 1
                  /\ chEmitted' = [chEmitted EXCEPT
                                     ![ChEv("session-deregistered", s)] = @ + 1]
             ELSE chSessions' = chSessions /\ chEmitted' = chEmitted]_vars

\* deregister was called for a Session that was never registered
C15_Witness ==
    \E s \in Sessions :
        /\ chLast = ChDone("deregister", s, TRUE, NoFilter)
        /\ chEmitted[ChEv("session-registered", s)] = 0
        /\ chEmitted[ChEv("session-deregistered", s)] = 0
        /\ SessionCount(chSessions) = 1


\* The Sessions a broadcast with the given filter is to reach
Selected(reg, filter) ==
    {s \in Sessions : Has(reg, s) /\ (filter.present => s \in filter.selects)}

\* A push to Session s can complete
Receives(s) == sConnected[s] /\ ~sHookThrows[s]

\* The event id of the broadcast or push call made in this step
IssuedId == issued'[Len(issued')]

\* Session s is written one more chunk in this step: the frame of the
\* broadcast, with the given id
GetsBroadcast(s, id) ==
    /\ Len(sChunks'[s]) = Len(sChunks[s]) + 1
    /\ SubSeq(sChunks'[s], 1, Len(sChunks[s])) = sChunks[s]
    /\ LET evs == WireEvents(sChunks'[s][Len(sChunks'[s])])
       IN  /\ Len(evs) = 1
           /\ evs[1].id = id
           /\ evs[1].event = BroadcastName

\* C16: broadcast isolates failures: when the push to one recipient fails,
\* every other recipient still receives the event and the failure is not
\* thrown to the caller of broadcast.
C16_BroadcastFailureIsolation ==
    [][BroadcastStep =>
          /\ chLast'.ok
          /\ \A s \in Selected(chSessions, chLast'.filter) :
                Receives(s) => GetsBroadcast(s, IssuedId)]_vars

\* C17: broadcast pushes to exactly the registered Sessions that pass the
\* filter (to every registered Session without one); every other Session
\* sees no write and keeps its lastId.
C17_BroadcastFiltering ==
    [][BroadcastStep =>
          \A s \in Sessions :
             IF s \in Selected(chSessions, chLast'.filter)
             THEN Receives(s) => Len(sChunks'[s]) = Len(sChunks[s]) + 1
             ELSE sChunks'[s] = sChunks[s] /\ sLastId'[s] = sLastId[s]]_vars

\* C18: one broadcast call uses one event id for all its recipients: after
\* the call the lastId of every recipient is that id, and the frame written
\* to each carries it.
C18_BroadcastSingleEventId ==
    [][BroadcastStep =>
          \A s \in Selected(chSessions, chLast'.filter) :
             Receives(s) =>
                /\ sLastId'[s] = IssuedId
                /\ Len(sChunks'[s]) > 0
                /\ LastIdIn(sChunks'[s][Len(sChunks'[s])]) = Given(IssuedId)]_vars

\* C19: each broadcast call emits the `broadcast` notification exactly once,
\* whatever the number of recipients and also when the delivery to a
\* recipient fails.
C19_BroadcastNotifiesOnce ==
    [][BroadcastStep =>
          chEmitted'[ChEv("broadcast", "")] =
             chEmitted[ChEv("broadcast", "")] + 1]_vars

\* The ids of the event frames in a sequence of written chunks, in order
RECURSIVE WrittenIds(_)
WrittenIds(written) ==
    IF written = <<>> THEN <<>>
    ELSE LET evs == WireEvents(Head(written))
         IN  [i \in 1..Len(evs) |-> evs[i].id] \o WrittenIds(Tail(written))

\* a is b with some elements left out
RECURSIVE IsSubsequence(_, _)
IsSubsequence(a, b) ==
    IF a = <<>> THEN TRUE
    ELSE IF b = <<>> THEN FALSE
    ELSE IF Head(a) = Head(b) THEN IsSubsequence(Tail(a), Tail(b))
    ELSE IsSubsequence(a, Tail(b))

\* C20: on each Session's connection the frames appear in the order in
\* which the broadcast and push calls that produced them were issued.
C20_PerRecipientOrdering ==
    \A s \in Sessions : IsSubsequence(WrittenIds(sChunks[s]), issued)

\* a Session has received the frame of a broadcast and then that of a push
C20_Witness ==
    \E s \in Sessions :
        /\ Len(WrittenIds(sChunks[s])) = 2
        /\ WrittenIds(sChunks[s]) = issued
        /\ issued[1] # issued[2]
        /\ chEmitted[ChEv("broadcast", "")] = 1
        /\ chLast = ChDone("push", s, TRUE, NoFilter)


\* ------------------------------------------------------------------------
\* Observations of stream and iterate steps
\* ------------------------------------------------------------------------
\* The "data" listener of stream() has run in this step
StreamDataStep == streamSt'.seen = streamSt.seen + 1

\* A step of the iterate() call, and the number of items it pushed
IterateStep == iterSt' # iterSt
IteratePushed == iterSt'.index - iterSt.index

\* The text of the only data line of a chunk that holds one event
DataOf(chunk) == LastValue(Blocks(Split(chunk), <<>>)[1], DataField, <<>>)

\* C21: stream resolves when the source ends, and rejects when the source
\* emits an error, when the transform throws or when a push fails because
\* the Session is not connected; a rejected stream stays rejected, and the
\* chunks pushed before the failure stay written.
C21_StreamSettles ==
    [][/\ streamSt.pc = "pending" /\ streamSt'.src = "ended"
             => streamSt'.pc = "resolved"
       /\ streamSt.pc = "pending" /\ streamSt'.src = "errored"
             => streamSt'.pc = "rejected"
       /\ StreamDataStep /\ ~isConnected => streamSt'.pc = "rejected"
       /\ StreamDataStep /\ Len(pushLog') = Len(pushLog)
             => streamSt'.pc = "rejected"
       /\ streamSt.pc = "rejected" => streamSt'.pc = "rejected"
       /\ streamSt'.pc = "rejected" => IsPrefix(chunks, chunks')]_vars

\* a stream that pushed chunks was cut by a disconnect, rejected, and its
\* source ended afterwards
C21_Witness ==
    /\ streamSt.pc = "rejected"
    /\ streamSt.src = "ended"
    /\ streamSt.index = 2
    /\ streamSt.seen = 3
    /\ ~isConnected
    /\ Len(chunks) = 3

\* C22: iterate pushes one event per item, in source order, one write per
\* item; with a prefix the ids are <prefix>-0, <prefix>-1, ...; when a push
\* fails or the source throws, iterate rejects, takes no further item, and
\* what was pushed stays written.
C22_IterateInOrder ==
    [][IterateStep =>
          /\ IteratePushed >= 0
          /\ Len(chunks') = Len(chunks) + IteratePushed
          /\ IsPrefix(chunks, chunks')
          /\ \A i \in 1..IteratePushed :
                LET n == iterSt.index + i - 1
                    evs == WireEvents(chunks'[Len(chunks) + i])
                IN  /\ Len(evs) = 1
                    /\ evs[1].event = IterateEventName
                    /\ DataOf(chunks'[Len(chunks) + i]) = NumToText(n + 1)
                    /\ IF iterSt'.prefix # <<>>
                       THEN evs[1].id = iterSt'.prefix \o <<"-">> \o NumToText(n)
                       ELSE /\ evs[1].id # <<>>
                            /\ \A j \in 1..(Len(pushLog) + i - 1) :
                                  pushLog'[j].eventId # evs[1].id
          /\ iterSt'.pulled - iterSt.pulled > IteratePushed
                => iterSt'.pc = "rejected"
          /\ iterSt.pc \in {"resolved", "rejected"} => iterSt'.pc = iterSt.pc
          /\ iterSt'.pc \in {"resolved", "rejected"} /\ iterSt.pc = iterSt'.pc
                => iterSt'.pulled = iterSt.pulled]_vars

\* an iterate with a prefix pushed two items, the Session disconnected, and
\* the push of the third item failed
C22_Witness ==
    /\ iterSt.pc = "rejected"
    /\ iterSt.prefix # <<>>
    /\ iterSt.index = 2
    /\ iterSt.pulled = 3
    /\ ~isConnected
    /\ lastId = iterSt.prefix \o <<"-", "1">>


\* ------------------------------------------------------------------------
\* Observations of the push under study
\* ------------------------------------------------------------------------
BufferPushStep == fnOut'.calls = fnOut.calls + 1
HookedPushStep == nCalls' = nCalls + 1

\* A hook of the push under study throws on its payload
HookThrowsIn ==
    \/ fnIn.serializer = "throws"
    \/ fnIn.sanitizer = "throws"
    \/ fnIn.serializer = "default" /\ fnIn.data.type = "cyclic"

\* The sanitized serialized payload of the push under study
SanitizedIn ==
    IF fnIn.sanitizer = "default" THEN sanitize(fnIn.data.text)
    ELSE fnIn.data.text

\* The frame of the push under study, line by line, with the event line
\* present or absent as given
FrameOf(withEventLine) ==
    LET lines == Split(SanitizedIn)
    IN  (IF fnIn.eventId # <<>> THEN IdField \o fnIn.eventId \o NL ELSE <<>>)
        \o (IF withEventLine THEN EventField \o fnIn.eventName \o NL ELSE <<>>)
        \o Concat([i \in 1..Len(lines) |-> DataField \o lines[i] \o NL])
        \o NL

\* The push under study is the one of the end-to-end scenario
ScenarioIn ==
    /\ fnIn.serializer = "default" /\ fnIn.sanitizer = "default"
    /\ fnIn.data = JsonPayload(<<"{", "\"", "x", "\"", ":", "1", "}">>)
    /\ fnIn.eventName = <<"u", "p", "d", "a", "t", "e">>
    /\ fnIn.eventId = <<"e", "1">>

ScenarioText ==
    <<"i", "d", ":", " ", "e", "1", "\n",
      "e", "v", "e", "n", "t", ":", " ", "u", "p", "d", "a", "t", "e", "\n",
      "d", "a", "t", "a", ":", " ", "{", "\"", "x", "\"", ":", "1", "}", "\n",
      "\n">>

\* C23: a push whose serializer or sanitizer hook throws throws to its
\* caller and leaves no partial frame: EventBuffer.push leaves the text of
\* the buffer as it was; Session.push writes nothing, keeps lastId and emits
\* no `push`.
C23_FailedPushLeavesNoFrame ==
    [][/\ BufferPushStep /\ HookThrowsIn
             => fnOut'.threw /\ fnOut'.buffer = fnOut.buffer
       /\ HookedPushStep /\ HookThrowsIn
             => /\ last' = Done("push", FALSE)
                /\ buffer' = buffer
                /\ chunks' = chunks
                /\ lastId' = lastId
                /\ emitted' = emitted]_vars

\* the sanitizer hook threw, in EventBuffer.push and in a push on the
\* connected Session
C23_Witness ==
    /\ fnIn.sanitizer = "throws"
    /\ fnIn.eventId # <<>>
    /\ fnOut.calls = 1 /\ fnOut.threw /\ fnOut.buffer = <<>>
    /\ isConnected
    /\ nCalls = 1 /\ last = Done("push", FALSE)

DataLineCount(text) ==
    Cardinality({i \in 1..Len(Split(text)) : IsPrefix(DataField, Split(text)[i])})

\* C25: with the default sanitizer the sanitized text holds no line break,
\* whatever mix of \r\n, \r and \n the payload holds; the frame of one push
\* has exactly one `data:` line, and the output split on blank lines holds
\* exactly one event per push call.
C25_OneEventPerPush ==
    (fnIn.serializer = "default" /\ fnIn.sanitizer = "default"
     /\ fnIn.data.type # "cyclic")
    => /\ \A i \in 1..Len(SanitizedIn) : SanitizedIn[i] \notin {"\r", "\n"}
       /\ \A i \in 1..Len(fnOut.buffer) : fnOut.buffer[i] # "\r"
       /\ DataLineCount(fnOut.buffer) = fnOut.calls
       /\ Len(Blocks(Split(fnOut.buffer), <<>>)) = fnOut.calls
       /\ Len(WireEvents(fnOut.buffer)) = fnOut.calls
       /\ \A k \in 1..Len(pushLog) :
             /\ DataLineCount(chunks[k + 1]) = 1
             /\ Len(WireEvents(chunks[k + 1])) = 1

\* a payload with a lone CR and a CRLF was pushed three times
C25_Witness ==
    /\ fnIn.serializer = "default" /\ fnIn.sanitizer = "default"
    /\ fnIn.data = StringPayload(<<"\r", "\r", "\n">>)
    /\ fnOut.calls = 3
    /\ Len(pushLog) = 2

\* ------------------------------------------------------------------------
\* Claims about construction (CtorSpec)
\* ------------------------------------------------------------------------
\* The client's resumption value as the request carries it
ClientResumptionValue ==
    CASE cfg.lastEventIdHeader.present -> cfg.lastEventIdHeader.value
      [] ~cfg.lastEventIdHeader.present /\ cfg.queryLastEventId.present ->
           cfg.queryLastEventId.value
      [] ~cfg.lastEventIdHeader.present /\ ~cfg.queryLastEventId.present
           /\ cfg.queryEvsLastEventId.present ->
           cfg.queryEvsLastEventId.value
      [] OTHER -> <<>>

\* C26: before any push, the lastId of a newly constructed Session is the
\* client's resumption value (the last-event-id header if present, else the
\* lastEventId query parameter, else evs_last_event_id, else empty) when
\* trustClientEventId is not false, and empty when it is false.
C26_ResumptionSeeding ==
    (ctor.pc = "constructed" /\ pushLog = <<>>) =>
        lastId = IF cfg.trustClientEventId THEN ClientResumptionValue
                 ELSE <<>>

\* A Session constructed from a request that carries a header and a query
\* parameter, trusted: the header wins
C26_Witness ==
    /\ ctor.pc = "constructed"
    /\ cfg.trustClientEventId
    /\ cfg.lastEventIdHeader = Given(<<"h">>)
    /\ cfg.queryLastEventId.present
    /\ lastId = <<"h">>

\* The second argument is a response object of another transport than the
\* request's, or the request is of no recognised shape
Mismatched ==
    \/ cfg.kind = "other"
    \/ /\ cfg.kind \in Kinds
       /\ ctor.res \in Kinds \ {cfg.kind}

\* C27: constructing a Session from a mismatched request/response pairing
\* fails synchronously and starts no partial operation: no abort listener is
\* attached, no bootstrap is scheduled and no write ever occurs, for every
\* request shape, a fetch Request with a non-fetch response included.
C27_MismatchFailsWhole ==
    (ctor.pc # "none" /\ Mismatched) =>
        /\ ctor.pc = "threw"
        /\ ~abortListener
        /\ ~immediate
        /\ headSent = 0
        /\ chunks = <<>>

\* The promise of createSession is fulfilled in this step
ResolvesStep ==
    /\ factory.promise = "pending"
    /\ factory'.promise = "resolved"

\* C29: createSession resolves only after the bootstrap has run, and at
\* resolution the Session is connected, the response head has been sent and
\* the connection has not been cleaned up, for every ordering of the abort
\* signal relative to the bootstrap.
C29_ResolvesUsable ==
    [][ResolvesStep =>
          /\ ~immediate'
          /\ isConnected'
          /\ headSent' = 1
          /\ cleanups' = 0]_vars

\* createResponse is called in this step
CreateResponseStep ==
    /\ factory.via = "none"
    /\ factory'.via = "createResponse"

\* The callback of createResponse is invoked in this step
CallbackStep == factory'.cbCalls > factory.cbCalls

\* The Session has emitted `connected`
HasConnected == \E i \in 1..Len(emitted) : emitted[i] = "connected"

\* C30: createResponse without a callback throws synchronously before any
\* Session is constructed (no bootstrap scheduled); with a callback, the
\* callback is invoked exactly once, only after the Session's `connected`
\* notification, and an error thrown or rejected by the callback is not
\* propagated to the caller of createResponse and does not change the
\* Session's state.
C30_CreateResponseCallback ==
    /\ [](factory.via = "createResponse" =>
            factory.cbCalls =
                IF factory.call = "returned" /\ HasConnected THEN 1 ELSE 0)
    /\ [][/\ (CreateResponseStep /\ factory'.callback = "none") =>
               /\ factory'.call = "threw"
               /\ ctor'.pc = "none"
               /\ ~immediate'
               /\ ~abortListener'
          /\ CallbackStep =>
               /\ factory.call = "returned"
               /\ factory'.call = "returned"
               /\ isConnected'
               /\ emitted' = Append(emitted, "connected")
               /\ lastId' = lastId
               /\ cleanups' = cleanups
               /\ chunks' = Append(chunks, InitialFrames(buffer))]_vars

\* createResponse returned, the Session connected, and the callback threw:
\* it was called once and the caller saw no error
C30_Witness ==
    /\ factory.via = "createResponse"
    /\ factory.callback = "throws"
    /\ factory.call = "returned"
    /\ factory.cbCalls = 1
    /\ factory.uncaught = 1
    /\ isConnected

\* ------------------------------------------------------------------------
\* Claims about the adapters (ConnSpec)
\* ------------------------------------------------------------------------
\* cleanup is called again in this step
SecondCleanupStep ==
    /\ cleanups >= 1
    /\ cleanups' = cleanups + 1

\* C28: Connection.cleanup is idempotent for every adapter: a second call
\* raises no error, neither thrown nor as a rejected completion, and leaves
\* the adapter in the state the first call left.
C28_CleanupIdempotent ==
    [][SecondCleanupStep =>
          /\ conn'.outcome = "returned"
          /\ conn'.writer = conn.writer
          /\ closeListeners' = closeListeners
          /\ headSent' = headSent
          /\ chunks' = chunks
          /\ aborted' = aborted]_vars

\* ------------------------------------------------------------------------
\* Claims about bootstrap, heartbeat and the writes of a Session (Spec)
\* ------------------------------------------------------------------------
\* The deferred bootstrap runs in this step
BootstrapStep == immediate /\ ~immediate'

\* What the bootstrap is to write: the padding comments the request asks
\* for, then the retry directive
BootstrapChunk ==
    (IF cfg.padding
     THEN <<":", " ">> \o [i \in 1..2049 |-> " "] \o <<"\n", "\n">>
     ELSE <<>>)
    \o (IF cfg.evs_preamble
        THEN <<":", " ">> \o [i \in 1..2056 |-> " "] \o <<"\n", "\n">>
        ELSE <<>>)
    \o (IF cfg.retry # Null
        THEN <<"r", "e", "t", "r", "y", ":", " ">> \o NumToText(cfg.retry)
                \o <<"\n", "\n">>
        ELSE <<>>)

\* C31: the bootstrap runs once, after the constructor has returned; it
\* performs sendHead, then exactly one sendChunk whose content is the padding
\* comments followed by the retry directive (iff retry is not null), starts
\* the heartbeat timer iff keepAlive is not null, then sets isConnected and
\* emits `connected` exactly once.
C31_BootstrapOnce ==
    [][BootstrapStep =>
          /\ headSent = 0
          /\ headSent' = 1
          /\ chunks' = Append(chunks, BootstrapChunk)
          /\ (keepAliveTimer' = "live") <=> (cfg.keepAlive # Null)
          /\ isConnected'
          /\ emitted' = Append(emitted, "connected")
          /\ \A i \in 1..Len(emitted) : emitted[i] # "connected"]_vars

\* The interval timer runs Session.keepAlive in this step
HeartbeatStep == nTicks' = nTicks + 1

\* C32: a heartbeat tick on a connected Session appends one comment frame
\* and flushes: with no batch in progress it causes exactly one sendChunk
\* equal to `: \n\n`; it leaves lastId, isConnected and the Channel
\* registrations unchanged and emits no `push`; heartbeats occur only when
\* keepAlive is not null.
C32_HeartbeatWritesComment ==
    [][HeartbeatStep =>
          /\ cfg.keepAlive # Null
          /\ (isConnected /\ batchPc = "idle") =>
                chunks' = Append(chunks, <<":", " ", "\n", "\n">>)
          /\ lastId' = lastId
          /\ isConnected' = isConnected
          /\ emitted' = emitted
          /\ UNCHANGED chanVars]_vars

\* ------------------------------------------------------------------------
\* Claims about EventBuffer.iterate (BufSpec)
\* ------------------------------------------------------------------------
\* EventBuffer.iterate runs in this step: the call, or a turn of its loop
BufIterateStep == iterSt' # iterSt

\* The frames of the values number from + 1 .. to of the source, with the
\* ids the claim gives them
RECURSIVE IteratedFrames(_, _, _)
IteratedFrames(from, to, drawn) ==
    IF from >= to THEN <<>>
    ELSE FrameWith(fnIn, iterSt'.src[from + 1], fnIn.eventName,
                   IF iterSt'.prefix # <<>>
                   THEN iterSt'.prefix \o <<"-">> \o NumToText(from)
                   ELSE Uuid(drawn + 1))
         \o IteratedFrames(from + 1, to, drawn + 1)

\* C33: EventBuffer.iterate appends one frame per source item, in source
\* order, with ids `<prefix>-<index>` (0-based, increasing by one) when a
\* prefix is given, and performs no write; if the source or a hook throws
\* part-way, the frames of the items consumed before stay in the buffer.
C33_BufferIterateInOrder ==
    [][BufIterateStep =>
          /\ fnOut'.buffer =
                fnOut.buffer \o IteratedFrames(iterSt.index, iterSt'.index,
                                               uuids)
          /\ iterSt'.index >= iterSt.index
          /\ iterSt'.pc = "resolved" => iterSt'.index = Len(iterSt'.src)
          /\ (iterSt'.pc = "rejected" /\ iterSt'.pulled > iterSt'.index) =>
                HookThrows(fnIn, iterSt'.src[iterSt'.pulled])
          /\ chunks' = chunks
          /\ headSent' = headSent]_vars

\* An iterate with a prefix that failed at its third item: the frames of the
\* first two, with the ids p-0 and p-1, are in the buffer
C33_Witness ==
    /\ iterSt.pc = "rejected"
    /\ iterSt.prefix = <<"p">>
    /\ iterSt.index = 2
    /\ Len(iterSt.src) = 3
    /\ fnOut.buffer =
         FrameWith(fnIn, iterSt.src[1], fnIn.eventName, <<"p", "-", "0">>)
         \o FrameWith(fnIn, iterSt.src[2], fnIn.eventName, <<"p", "-", "1">>)

\* ------------------------------------------------------------------------
\* Claims about the writes of a Session (Spec)
\* ------------------------------------------------------------------------
\* Everything handed to sendChunk so far, followed by what is still queued
WrittenText == Concat(chunks)
TotalText == WrittenText \o buffer

\* The batch callback queues a frame in this step
BatchAppendStep == Len(batchQueued') = Len(batchQueued) + 1

\* The frames this step appends to the Session's buffer
AppendedInStep ==
    IF PushOk
    THEN LET c == pushLog'[Len(pushLog')]
         IN  EventFrame(c.data, c.eventName, c.eventId)
    ELSE IF HeartbeatStep THEN <<":", " ", "\n", "\n">>
    ELSE IF BootstrapStep THEN BootstrapChunk
    ELSE IF BatchAppendStep THEN batchQueued'[Len(batchQueued')]
    ELSE <<>>

\* A text of whole frames: empty, or ending with the blank line of a frame
WholeFrames(text) == text = <<>> \/ IsSuffix(<<"\n", "\n">>, text)

\* C34: write conservation. For every interleaving of push, batch, heartbeat
\* and bootstrap, what has been passed to sendChunk, concatenated, is a
\* prefix of the frames appended to the buffer in append order: each step
\* extends the text written-or-queued by exactly the frames it appends, a
\* flush sends the whole queue and empties it (no frame is written twice),
\* and every chunk consists of whole frames.
C34_WriteConservation ==
    /\ [](/\ \A i \in 1..Len(chunks) : WholeFrames(chunks[i])
          /\ WholeFrames(buffer))
    /\ [][/\ TotalText' = TotalText \o AppendedInStep
          /\ IsPrefix(chunks, chunks')
          /\ Len(chunks') <= Len(chunks) + 1
          /\ Len(chunks') = Len(chunks) + 1 =>
                /\ chunks'[Len(chunks')] = buffer \o AppendedInStep
                /\ buffer' = <<>>]_vars

\* Two chunks have been written and a suspended batch has a frame queued
C34_Witness ==
    /\ Len(chunks) >= 2
    /\ chunks[2] # <<>>
    /\ batchPc = "running"
    /\ buffer # <<>>

\* C35: once Connection.cleanup has been invoked for a Session, sendHead and
\* sendChunk are never called on that connection again, whatever push,
\* batch, heartbeat or deferred bootstrap steps follow.
C35_NoWriteAfterCleanup ==
    [][cleanups >= 1 =>
          /\ headSent' = headSent
          /\ chunks' = chunks]_vars

\* ------------------------------------------------------------------------
\* Claims about a rejected stream (FeedSpec)
\* ------------------------------------------------------------------------
\* C36: once the promise of a Session.stream call has rejected, that call
\* pushes no further event: a chunk the source emits after the rejection is
\* not written to the connection.
C36_RejectedStreamStops ==
    [][(streamSt.pc = "rejected" /\ StreamDataStep) =>
          /\ chunks' = chunks
          /\ pushLog' = pushLog
          /\ lastId' = lastId]_vars

\* ------------------------------------------------------------------------
\* Claims about a failed batch (Spec)
\* ------------------------------------------------------------------------
\* The callback of the running batch fails in this step
BatchFailStep ==
    /\ batchPc = "running"
    /\ batchPc' = "idle"
    /\ last' = Done("batch", FALSE)

\* C37: when the callback of Session.batch throws or rejects, batch rejects
\* and writes nothing, and the frames the callback had queued are discarded:
\* they are not left in the buffer, so no later push or heartbeat write
\* holds a frame of the failed batch.
C37_FailedBatchDiscards ==
    [][/\ BatchFailStep =>
             /\ chunks' = chunks
             /\ buffer' = <<>>
       /\ ((PushOk \/ HeartbeatStep) /\ batchPc = "idle") =>
             chunks' = Append(chunks, AppendedInStep)]_vars

\* ------------------------------------------------------------------------
\* Claims about the Channel's disconnect notification (ChanSpec)
\* ------------------------------------------------------------------------
\* How often the Channel emits the notification ev for Session s in this step
EmittedInStep(ev, s) == chEmitted'[ChEv(ev, s)] - chEmitted[ChEv(ev, s)]

\* C38: a Channel emits `session-disconnected` for a Session at most once
\* per disconnect, and only if the Session is registered when it
\* disconnects, whatever register and deregister calls came before; each
\* `session-disconnected` is followed by a `session-deregistered` for the
\* same Session.
C38_DisconnectNotifiedOnce ==
    [][\A s \in Sessions :
          /\ EmitsDisconnected(s) =>
                /\ EmittedInStep("session-disconnected", s) =
                      IF Has(chSessions, s) THEN 1 ELSE 0
                /\ EmittedInStep("session-deregistered", s) =
                      EmittedInStep("session-disconnected", s)
          /\ ~EmitsDisconnected(s) =>
                EmittedInStep("session-disconnected", s) = 0]_vars

\* ------------------------------------------------------------------------
\* Claims about line breaks in the event id and the event name (InjectSpec)
\* ------------------------------------------------------------------------
\* The text the EventBuffer.push call of this step has appended
AppendedText ==
    SubSeq(fnOut'.buffer, Len(fnOut.buffer) + 1, Len(fnOut'.buffer))

\* C39: one push produces exactly one frame whatever its eventId and
\* eventName hold: read by a consumer, the appended text is one block, one
\* event, with the id of the call, one `data:` line per line of the
\* sanitized payload and no line beyond the id, event and data lines of
\* the call, also when the id or the name contains a line break.
C39_OnePushOneFrame ==
    [][(BufferPushStep /\ ~HookThrowsIn) =>
          LET bs == Blocks(Split(AppendedText), <<>>)
              evs == WireEvents(AppendedText)
          IN  /\ Len(bs) = 1
              /\ Len(evs) = 1
              /\ evs[1].id = fnIn.eventId
              /\ DataLineCount(AppendedText) = Len(Split(SanitizedIn))
              /\ Len(bs[1]) = Len(Split(SanitizedIn))
                    + (IF fnIn.eventId # <<>> THEN 1 ELSE 0)
                    + (IF fnIn.eventName \notin {<<>>, MESSAGE} THEN 1
                       ELSE 0)]_vars

====
